---- MODULE Spec2Model ----
(***************************************************************************)
(* ATBTCT: archiving a Certificate Transparency log as BitTorrent          *)
(* packages.  The model follows src/atbtct: the fetcher (getct.py), the    *)
(* hasher (hashbundles.py), the layout helpers (utils.py) and the          *)
(* orchestration of a run (atbtct.py).                                     *)
(*                                                                         *)
(* Log entry number i carries the leaf_input i: entries are identified by  *)
(* their index in the log.  A SHA-256 digest is modelled as the preorder   *)
(* serialisation of the hash expression (a sequence of integers), which is *)
(* an injective encoding: two digests are equal iff the hashed data are.   *)
(***************************************************************************)
EXTENDS Integers, Sequences, FiniteSets, TLC

\* ------------------------------------------------------------------ bounds
\* The log never holds more than MaxTree entries.
MaxTree == 6
\* A log that grows between automatic runs grows to at most MaxGrowth entries.
MaxGrowth == 3
\* bundle_size arguments range over -1 .. MaxBundle (powers of two or not).
MaxBundle == 4
\* package_size arguments range over 1 .. MaxPackage.
MaxPackage == 2
\* Requested step sizes are 2^0 .. 2^MaxStepExp (expert_getct: 1 << args.step_size).
MaxStepExp == 3
\* A get-entries request fails at most MaxFail times before it is answered.
MaxFail == 1
\* At most MaxRuns automatic runs are started on an archive.
MaxRuns == 2
\* A directory listing given to the selection functions on their own holds at
\* most MaxListing names, of numbers 0 .. MaxName.
MaxListing == 3
MaxName == 3
\* A function called on its own is given: a total size of at most MaxUnits times
\* 1500 * 8192 bytes and a little more; a probe answer of at most MaxAnswer
\* entries; at most MaxHashes hashes; at most MaxFiles files of at most
\* MaxFileLen bytes and a piece length of at most MaxPieceLen.
MaxUnits == 6
MaxAnswer == 8
MaxHashes == 7
MaxFiles == 3
MaxFileLen == 3
MaxPieceLen == 3
\* A dict given to bencode on its own has at most MaxItems items.
MaxItems == 2
\* The except clause of one get_entries call opens at most MaxReopen connections.
MaxReopen == 1

\* ------------------------------------------------------------- arithmetic
Min(a, b) == IF a <= b THEN a ELSE b

RECURSIVE Pow2(_)
Pow2(e) == IF e <= 0 THEN 1 ELSE 2 * Pow2(e - 1)

\* Width of the two's complement words used to evaluate Python's & on the
\* small integers of the model.
BitWidth == 8

RECURSIVE AndBits(_, _, _)
AndBits(a, b, w) ==
    IF w = 0 THEN 0
    ELSE (IF a % 2 = 1 /\ b % 2 = 1 THEN 1 ELSE 0) + 2 * AndBits(a \div 2, b \div 2, w - 1)

RECURSIVE XorBits(_, _, _)
XorBits(a, b, w) ==
    IF w = 0 THEN 0
    ELSE (IF a % 2 # b % 2 THEN 1 ELSE 0) + 2 * XorBits(a \div 2, b \div 2, w - 1)

\* Python's a & b on integers of either sign (two's complement).
BitAnd(a, b) ==
    LET m == Pow2(BitWidth)
        r == AndBits(a % m, b % m, BitWidth)
    IN  IF r >= m \div 2 THEN r - m ELSE r

\* Python's a ^ b on non-negative integers.
BitXor(a, b) == XorBits(a, b, BitWidth)

\* The exact floor and ceiling of log2(n), n >= 1.
RECURSIVE FloorLog2(_)
FloorLog2(n) == IF n <= 1 THEN 0 ELSE 1 + FloorLog2(n \div 2)

RECURSIVE CeilLog2From(_, _)
CeilLog2From(n, e) == IF Pow2(e) >= n THEN e ELSE CeilLog2From(n, e + 1)

\* int(math.log(n) // math.log(2)): floor division of two IEEE doubles.  For these
\* powers of two log(n) is a hair below e * log(2) and the quotient floors to e - 1.
FloatFloorOff == {8, 64, 128, 4096, 8192, 16384, 32768}
PyLogFloorDiv(n) == IF n \in FloatFloorOff THEN FloorLog2(n) - 1 ELSE FloorLog2(n)

\* int(math.ceil(math.log(n) / math.log(2))): true division is exact on the
\* powers of two in range, so this is the exact ceiling.
PyLogCeil(n) == CeilLog2From(n, 0)

\* ----------------------------------------------------------------- hashes
\* SHA256(0x00 || leaf_input) of the entry whose leaf_input is e.
LeafHash(e) == <<e>>
\* SHA256(0x01 || a || b).
NodeHash(a, b) == <<-1>> \o a \o b

\* RFC 6962 2.1 Merkle Tree Hash of a non-empty list of leaf hashes.
RECURSIVE LargestPow2Below(_, _)
LargestPow2Below(n, k) == IF 2 * k < n THEN LargestPow2Below(n, 2 * k) ELSE k

RECURSIVE MTH(_)
MTH(d) ==
    IF Len(d) = 1 THEN d[1]
    ELSE LET k == LargestPow2Below(Len(d), 1)
         IN  NodeHash(MTH(SubSeq(d, 1, k)), MTH(SubSeq(d, k + 1, Len(d))))

\* RFC 6962 2.1.1 audit path of leaf m (0-based) in the list d.
RECURSIVE AuditPath(_, _)
AuditPath(m, d) ==
    IF Len(d) = 1 THEN <<>>
    ELSE LET k == LargestPow2Below(Len(d), 1)
         IN  IF m < k
             THEN Append(AuditPath(m, SubSeq(d, 1, k)), MTH(SubSeq(d, k + 1, Len(d))))
             ELSE Append(AuditPath(m - k, SubSeq(d, k + 1, Len(d))), MTH(SubSeq(d, 1, k)))

\* ----------------------------------------------------------------- layout
\* A bundle file name SSSSSSSSSS-EEEEEEEEEE.json.gz is the pair <<S, E>>, an info
\* file name NNN-TTTTTTTTTT.info the pair <<N, T>>.  The names are zero-padded to a
\* fixed width, so sorted() orders them as the pairs, first component first.
PairLeq(x, y) == x[1] < y[1] \/ (x[1] = y[1] /\ x[2] <= y[2])

RECURSIVE SortedNames(_)
SortedNames(S) ==
    IF S = {} THEN <<>>
    ELSE LET m == CHOOSE x \in S : \A y \in S : PairLeq(x, y)
         IN  <<m>> \o SortedNames(S \ {m})

\* build_package_dir: the package number of the entry at index.
build_package_dir(index, package_size_, bundle_size_) ==
    index \div (package_size_ * bundle_size_)

\* get_bundle_list lines 86-92: the pass over the sorted list from position i on.
\* An entry is dropped when its successor has the same start index and an end
\* index below tree_size.
RECURSIVE FilterBundles(_, _, _)
FilterBundles(bundle_list, tree_size, i) ==
    IF i > Len(bundle_list) THEN <<>>
    ELSE (IF /\ i + 1 <= Len(bundle_list)
             /\ bundle_list[i][1] = bundle_list[i + 1][1]
             /\ bundle_list[i + 1][2] < tree_size
          THEN <<>>
          ELSE <<bundle_list[i]>>)
         \o FilterBundles(bundle_list, tree_size, i + 1)

\* get_bundle_list: names is the set of bundle names of one package directory.
get_bundle_list(names, tree_size) == FilterBundles(SortedNames(names), tree_size, 1)

\* ----------------------------------------------------------------- hasher
\* A faulty level: the odd tail is hashed with itself instead of being carried.
TreeLevelDuplicatingTail(cur) ==
    LET clen == Len(cur)
        pairs == [j \in 1 .. (clen \div 2) |-> NodeHash(cur[2 * j - 1], cur[2 * j])]
    IN  IF clen % 2 = 1 /\ clen > 1 THEN Append(pairs, NodeHash(cur[clen], cur[clen])) ELSE
        IF clen % 2 = 1 THEN Append(pairs, cur[clen]) ELSE pairs

\* A faulty level: the odd tail is dropped instead of being carried.
TreeLevelDroppingTail(cur) ==
    [j \in 1 .. (Len(cur) \div 2) |-> NodeHash(cur[2 * j - 1], cur[2 * j])]

\* One level of the pair-wise reduction: pairs hashed in order, odd tail carried.
TreeLevel(cur) ==
    LET clen == Len(cur)
        pairs == [j \in 1 .. (clen \div 2) |-> NodeHash(cur[2 * j - 1], cur[2 * j])]
    IN  IF clen % 2 = 1 THEN Append(pairs, cur[clen]) ELSE pairs

\* get_partial_tree_hash leaves its while loop only when one element is left: on
\* the empty list clen stays 0 and the loop never ends.
PartialTreeLoops(entry_hashes) == Len(entry_hashes) = 0

RECURSIVE get_partial_tree_hash(_)
get_partial_tree_hash(entry_hashes) ==
    IF Len(entry_hashes) = 1 THEN entry_hashes[1]
    ELSE get_partial_tree_hash(TreeLevel(entry_hashes))

\* A faulty pass: a file newer than tree_size is kept when it is the last of its
\* package.
RECURSIVE FilterInfoFilesUnbounded(_, _, _)
FilterInfoFilesUnbounded(info_file_list, tree_size, i) ==
    IF i > Len(info_file_list) THEN <<>>
    ELSE (IF /\ i < Len(info_file_list)
             /\ info_file_list[i][1] = info_file_list[i + 1][1]
             /\ info_file_list[i + 1][2] <= tree_size
          THEN <<>>
          ELSE <<info_file_list[i]>>)
         \o FilterInfoFilesUnbounded(info_file_list, tree_size, i + 1)

\* get_pkg_hash_list lines 137-149: the pass over the sorted info file names from
\* position i on.  A file is dropped when its successor is of the same package and
\* not newer than tree_size, or when it is itself newer than tree_size.
RECURSIVE FilterInfoFiles(_, _, _)
FilterInfoFiles(info_file_list, tree_size, i) ==
    IF i > Len(info_file_list) THEN <<>>
    ELSE (IF /\ i < Len(info_file_list)
             /\ info_file_list[i][1] = info_file_list[i + 1][1]
             /\ info_file_list[i + 1][2] <= tree_size
          THEN <<>>
          ELSE IF info_file_list[i][2] <= tree_size THEN <<info_file_list[i]>> ELSE <<>>)
         \o FilterInfoFiles(info_file_list, tree_size, i + 1)

\* get_pkg_hash_list: infos maps the info file names <<pkg, tree_size>> to their
\* contents; the result is the list of the pkg_hash of the files kept.
FilteredInfoFiles(infos, tree_size) == FilterInfoFiles(SortedNames(DOMAIN infos), tree_size, 1)

get_pkg_hash_list(infos, tree_size) ==
    LET kept == FilteredInfoFiles(infos, tree_size)
    IN  [i \in 1 .. Len(kept) |-> infos[kept[i]].pkg_hash]

\* compute_proofs, lines 207-212: the initial mask.
InitialMask(last_package) ==
    IF last_package > 0 THEN Pow2(PyLogCeil(last_package)) - 1 ELSE 1

\* What one level of compute_proofs appends to the proof of pkg_num: for each pair
\* (cur[i], cur[i+1]) whose masked number equals pkg_num's, one of the two hashes.
RECURSIVE LevelProof(_, _, _, _, _)
LevelProof(cur, pkg_num, mask, mask_canceler, j) ==
    IF 2 * j > Len(cur) THEN <<>>
    ELSE (IF BitAnd(pkg_num, mask) = BitAnd(cur[2 * j - 1].num, mask)
          THEN (IF BitAnd(pkg_num, mask_canceler) # 0
                THEN <<cur[2 * j - 1].hash>>
                ELSE <<cur[2 * j].hash>>)
          ELSE <<>>)
         \o LevelProof(cur, pkg_num, mask, mask_canceler, j + 1)

\* One level of the numbered list: (cur[i][0] & mask, digest) per pair, odd tail carried.
NumberedLevel(cur, mask) ==
    LET clen == Len(cur)
        pairs == [j \in 1 .. (clen \div 2) |->
                    [num |-> BitAnd(cur[2 * j - 1].num, mask),
                     hash |-> NodeHash(cur[2 * j - 1].hash, cur[2 * j].hash)]]
    IN  IF clen % 2 = 1 THEN Append(pairs, cur[clen]) ELSE pairs

\* The while loop of compute_proofs (lines 221-254) from the state st.
RECURSIVE ProofLoop(_)
ProofLoop(st) ==
    IF Len(st.cur) <= 1 THEN st
    ELSE LET mask == BitXor(st.mask, st.mask_canceler)
         IN  ProofLoop([cur |-> NumberedLevel(st.cur, mask),
                        proofs |-> [p \in DOMAIN st.proofs |->
                                      st.proofs[p] \o LevelProof(st.cur, p, mask, st.mask_canceler, 1)],
                        mask |-> mask,
                        mask_canceler |-> 2 * st.mask_canceler])

\* compute_proofs on the list of package hashes: the final list (its one element
\* carries the root) and the proof of every package start_package .. last_package.
compute_proofs(hash_list, start_package, last_package) ==
    ProofLoop([cur |-> [i \in 1 .. Len(hash_list) |-> [num |-> i - 1, hash |-> hash_list[i]]],
               proofs |-> [p \in start_package .. last_package |-> <<>>],
               mask |-> InitialMask(last_package),
               mask_canceler |-> 1])

\* ------------------------------------------------------------- bittorrent
\* Bytes are numbers; a text is the sequence of the code points of its
\* characters, and its UTF-8 encoding has one byte per code point below 128 and
\* two per code point of 128 .. 2047.
Utf8Char(c) == IF c < 128 THEN <<c>> ELSE <<192 + (c \div 64), 128 + (c % 64)>>

RECURSIVE Utf8(_)
Utf8(text) == IF text = <<>> THEN <<>> ELSE Utf8Char(Head(text)) \o Utf8(Tail(text))

\* str(n) of a number: its decimal digits, after a minus sign if it is negative.
RECURSIVE Digits(_)
Digits(n) == IF n < 10 THEN <<48 + n>> ELSE Digits(n \div 10) \o <<48 + (n % 10)>>

Decimal(n) == IF n < 0 THEN <<45>> \o Digits(0 - n) ELSE Digits(n)

\* '{:0w}'.format(n): the digits of n after as many zeros as it takes to reach
\* the width w.
RECURSIVE ZeroPad(_, _)
ZeroPad(text, w) == IF Len(text) >= w THEN text ELSE ZeroPad(<<48>> \o text, w)

\* utils.py: the names of the files of an archive.
build_package_name(i) == ZeroPad(Decimal(i), 3)
build_bundle_filename(start, end) ==
    ZeroPad(Decimal(start), 10) \o <<45>> \o ZeroPad(Decimal(end), 10)
        \o <<46, 106, 115, 111, 110, 46, 103, 122>>
build_sth_name(tree_size) ==
    <<115, 116, 104, 45>> \o ZeroPad(Decimal(tree_size), 10) \o <<46, 106, 115, 111, 110>>
\* A faulty name: the package number is left out.
InfoFileNameOfTree(pkg_num, tree_size) ==
    <<45>> \o ZeroPad(Decimal(tree_size), 10) \o <<46, 105, 110, 102, 111>>

build_info_file_name(pkg_num, tree_size) ==
    ZeroPad(Decimal(pkg_num), 3) \o <<45>> \o ZeroPad(Decimal(tree_size), 10)
        \o <<46, 105, 110, 102, 111>>
build_torrent_name(log_name, pkg_num, tree_size) ==
    log_name \o <<95>> \o build_package_name(pkg_num) \o <<45>>
        \o ZeroPad(Decimal(tree_size), 10) \o <<46, 116, 111, 114, 114, 101, 110, 116>>
build_magnet_name(log_name, pkg_num, tree_size) ==
    log_name \o <<95>> \o build_package_name(pkg_num) \o <<45>>
        \o ZeroPad(Decimal(tree_size), 10) \o <<46, 109, 97, 103, 110, 101, 116>>

\* SHA-1 of a byte string, collision-free: the digest tells the string.
Sha1(s) == <<-3>> \o s

\* The values bencode takes: int, str, bytes, Raw, list, dict (its items in
\* insertion order, each a pair of a str key and a value), and the two end
\* symbols.
IntValue(n) == [t |-> "int", v |-> n]
StrValue(text) == [t |-> "str", v |-> text]
BytesValue(b) == [t |-> "bytes", v |-> b]
Raw(b) == [t |-> "Raw", v |-> b]
ListValue(items) == [t |-> "list", v |-> items]
DictValue(items) == [t |-> "dict", v |-> items]
EndDict == [t |-> "EndDict", v |-> <<>>]
EndList == [t |-> "EndList", v |-> <<>>]

\* The order of str values: code point by code point, a prefix first.
RECURSIVE TextLess(_, _)
TextLess(a, b) ==
    IF b = <<>> THEN FALSE
    ELSE IF a = <<>> THEN TRUE
    ELSE IF Head(a) # Head(b) THEN Head(a) < Head(b)
    ELSE TextLess(Tail(a), Tail(b))

\* sorted(item.items()): the items of a dict by increasing key.
RECURSIVE InsertItem(_, _)
InsertItem(item, sorted) ==
    IF sorted = <<>> THEN <<item>>
    ELSE IF TextLess(item[1].v, Head(sorted)[1].v) THEN <<item>> \o sorted
    ELSE <<Head(sorted)>> \o InsertItem(item, Tail(sorted))

\* A faulty order: the items as they were inserted.
UnsortedItems(items) == items

RECURSIVE SortedItems(_)
SortedItems(items) ==
    IF items = <<>> THEN <<>>
    ELSE InsertItem(Head(items), SortedItems(Tail(items)))

\* bencode lines 81-83: new_l, the keys and values of the sorted items in turn.
RECURSIVE KeysAndValues(_)
KeysAndValues(items) ==
    IF items = <<>> THEN <<>>
    ELSE <<Head(items)[1], Head(items)[2]>> \o KeysAndValues(Tail(items))

\* A faulty encoding of a Raw value: as a byte string, with its length.
EncodeRawAsBytes(item) == Decimal(Len(item.v)) \o <<58>> \o item.v

\* bencode lines 65-66: a Raw value is appended as it is.
EncodeRaw(item) == item.v

\* bencode lines 62-86: the loop over the work list l; what it appends to s.
RECURSIVE BencodeLoop(_)
BencodeLoop(l) ==
    IF Len(l) = 0 THEN <<>>
    ELSE LET item == Head(l)
             rest == Tail(l)
         IN  CASE item.t = "Raw" -> EncodeRaw(item) \o BencodeLoop(rest)
               [] item.t \in {"EndDict", "EndList"} -> <<101>> \o BencodeLoop(rest)
               [] item.t = "bytes" ->
                    Decimal(Len(item.v)) \o <<58>> \o item.v \o BencodeLoop(rest)
               [] item.t = "str" ->
                    Utf8(Decimal(Len(item.v)) \o <<58>> \o item.v) \o BencodeLoop(rest)
               [] item.t = "int" -> <<105>> \o Decimal(item.v) \o <<101>> \o BencodeLoop(rest)
               [] item.t = "list" -> <<108>> \o BencodeLoop(item.v \o <<EndList>> \o rest)
               [] item.t = "dict" ->
                    <<100>> \o BencodeLoop(KeysAndValues(SortedItems(item.v))
                                              \o <<EndDict>> \o rest)

bencode(obj) == BencodeLoop(<<obj>>)

\* The texts of bittorrent.py.
\* 'name'
Key_name == <<110, 97, 109, 101>>
\* 'piece length'
Key_piece_length == <<112, 105, 101, 99, 101, 32, 108, 101, 110, 103, 116, 104>>
\* 'pieces'
Key_pieces == <<112, 105, 101, 99, 101, 115>>
\* 'files'
Key_files == <<102, 105, 108, 101, 115>>
\* 'length'
Key_length == <<108, 101, 110, 103, 116, 104>>
\* 'path'
Key_path == <<112, 97, 116, 104>>
\* 'info'
Key_info == <<105, 110, 102, 111>>
\* 'creation date'
Key_creation_date == <<99, 114, 101, 97, 116, 105, 111, 110, 32, 100, 97, 116, 101>>
\* 'comment'
Key_comment == <<99, 111, 109, 109, 101, 110, 116>>
\* 'created by'
Key_created_by == <<99, 114, 101, 97, 116, 101, 100, 32, 98, 121>>
\* 'announce'
Key_announce == <<97, 110, 110, 111, 117, 110, 99, 101>>
\* 'announce-list'
Key_announce_list == <<97, 110, 110, 111, 117, 110, 99, 101, 45, 108, 105, 115, 116>>
\* 'peers'
Key_peers == <<112, 101, 101, 114, 115>>
\* 'Downloaded from AS'
CommentPrefix == <<68, 111, 119, 110, 108, 111, 97, 100, 101, 100, 32, 102, 114, 111, 109, 32, 65, 83>>
\* 'ATBTCT (https://github.com/X-Cli/ATBTCT)'
CreatedBy == <<65, 84, 66, 84, 67, 84, 32, 40, 104, 116, 116, 112, 115, 58, 47, 47, 103, 105, 116, 104, 117, 98, 46, 99, 111, 109, 47, 88, 45, 67, 108, 105, 47, 65, 84, 66, 84, 67, 84, 41>>

\* The bytes of the files of an archive: a bundle is the gzip stream of the JSON
\* text of its entries (nothing of it is there when the file is torn), an STH
\* file the JSON text of the tree head, an info file that of its two fields.
BundleBytes(bundle) == IF bundle.ok THEN <<31, 139>> \o bundle.entries ELSE <<>>
SthBytes(tree_size, root_hash) == <<123>> \o Decimal(tree_size) \o <<44>> \o root_hash \o <<125>>

RECURSIVE Join(_)
Join(parts) == IF parts = <<>> THEN <<>> ELSE Head(parts) \o Join(Tail(parts))

InfoBytes(info) == <<123>> \o info.pkg_hash \o <<44>> \o Join(info.merkle_proof) \o <<125>>

\* The files below pkg_root_dir, each with its path relative to that directory.
ArchiveFiles(bundle_files, sth_files, info_files) ==
    {[path |-> <<build_package_name(n[1]), build_bundle_filename(n[2], n[3])>>,
      bytes |-> BundleBytes(bundle_files[n])] : n \in DOMAIN bundle_files}
    \cup {[path |-> <<build_sth_name(t)>>, bytes |-> SthBytes(t, sth_files[t])] :
             t \in DOMAIN sth_files}
    \cup {[path |-> <<build_info_file_name(n[1], n[2])>>, bytes |-> InfoBytes(info_files[n])] :
             n \in DOMAIN info_files}

ReadFile(files, path) == (CHOOSE f \in files : f.path = path).bytes

\* get_file_list raises when os.listdir or os.stat does not find what it names.
FileNotFound(pkg_dirs, sth_names, info_names, pkg_num, tree_size) ==
    \/ pkg_num \notin pkg_dirs
    \/ tree_size \notin sth_names
    \/ <<pkg_num, tree_size>> \notin info_names

\* get_file_list lines 105-117: one dict per bundle of the bundle list.
BundleFileList(files, pkg_num, bundle_list) ==
    [i \in 1 .. Len(bundle_list) |->
        LET file_path == <<build_package_name(pkg_num),
                           build_bundle_filename(bundle_list[i][1], bundle_list[i][2])>>
        IN  [length |-> Len(ReadFile(files, file_path)), path |-> file_path]]

\* get_file_list: the bundles of the package, then the STH file, then the info
\* file. bundle_names are the names <<start, end>> in the package directory.
get_file_list(files, bundle_names, pkg_num, tree_size) ==
    LET sth_fn == build_sth_name(tree_size)
        info_file_fn == build_info_file_name(pkg_num, tree_size)
    IN  BundleFileList(files, pkg_num, get_bundle_list(bundle_names, tree_size))
            \o <<[length |-> Len(ReadFile(files, <<sth_fn>>)), path |-> <<sth_fn>>]>>
            \o <<[length |-> Len(ReadFile(files, <<info_file_fn>>)), path |-> <<info_file_fn>>]>>

\* get_pieces lines 145-160: the loop over the files f and the reads of at most
\* piece_length bytes at pos, with the bytes s not yet hashed; the digests it
\* yields, the last one after the loop.
RECURSIVE PiecesLoop(_, _, _, _, _)
PiecesLoop(contents, f, pos, s, piece_length) ==
    IF f > Len(contents) THEN <<Sha1(SubSeq(s, 1, Min(Len(s), piece_length)))>>
    ELSE LET buf == SubSeq(contents[f], pos, Min(pos + piece_length - 1, Len(contents[f])))
             filled == s \o buf
         IN  IF Len(buf) = 0 THEN PiecesLoop(contents, f + 1, 1, s, piece_length)
             ELSE IF Len(filled) >= piece_length
             THEN <<Sha1(SubSeq(filled, 1, piece_length))>>
                      \o PiecesLoop(contents, f, pos + Len(buf),
                                    SubSeq(filled, piece_length + 1, Len(filled)), piece_length)
             ELSE PiecesLoop(contents, f, pos + Len(buf), filled, piece_length)

get_pieces(files, file_list, piece_length) ==
    PiecesLoop([i \in 1 .. Len(file_list) |-> ReadFile(files, file_list[i].path)],
               1, 1, <<>>, piece_length)

\* create_torrent lines 235-238.
RECURSIVE Sum(_)
Sum(numbers) == IF numbers = <<>> THEN 0 ELSE Head(numbers) + Sum(Tail(numbers))

Max(a, b) == IF a >= b THEN a ELSE b

PieceLength(total_size) == Max(Pow2(15), ((total_size \div 1500) \div Pow2(13)) * Pow2(13))

\* The dicts of the files property, as bencode takes them.
FileValue(file) ==
    DictValue(<<<<StrValue(Key_length), IntValue(file.length)>>,
                <<StrValue(Key_path),
                  ListValue([i \in 1 .. Len(file.path) |-> StrValue(file.path[i])])>>>>)

\* A faulty info section: it also holds the creation date.
info_section_dated(suggested_name, piece_length, pieces, file_list, creation_date) ==
    DictValue(<<<<StrValue(Key_name), StrValue(suggested_name)>>,
                <<StrValue(Key_piece_length), IntValue(piece_length)>>,
                <<StrValue(Key_pieces), BytesValue(pieces)>>,
                <<StrValue(Key_files),
                  ListValue([i \in 1 .. Len(file_list) |-> FileValue(file_list[i])])>>,
                <<StrValue(Key_creation_date), IntValue(creation_date)>>>>)

\* create_torrent lines 243-248; creation_date is int(time.time()), which the
\* info section leaves out.
info_section(suggested_name, piece_length, pieces, file_list, creation_date) ==
    DictValue(<<<<StrValue(Key_name), StrValue(suggested_name)>>,
                <<StrValue(Key_piece_length), IntValue(piece_length)>>,
                <<StrValue(Key_pieces), BytesValue(pieces)>>,
                <<StrValue(Key_files),
                  ListValue([i \in 1 .. Len(file_list) |-> FileValue(file_list[i])])>>>>)

\* peer.split(':'): the parts of a text between its colons.
RECURSIVE SplitLoop(_, _)
SplitLoop(text, part) ==
    IF text = <<>> THEN <<part>>
    ELSE IF Head(text) = 58 THEN <<part>> \o SplitLoop(Tail(text), <<>>)
    ELSE SplitLoop(Tail(text), Append(part, Head(text)))

Split(text) == SplitLoop(text, <<>>)

\* create_torrent lines 257-269: the torrent dict.
TorrentDict(bencoded_info_section, creation_date, asn, trackers_lst, peers_lst) ==
    DictValue(
        <<<<StrValue(Key_info), Raw(bencoded_info_section)>>,
          <<StrValue(Key_creation_date), IntValue(creation_date)>>,
          <<StrValue(Key_comment), StrValue(CommentPrefix \o Decimal(asn))>>,
          <<StrValue(Key_created_by), StrValue(CreatedBy)>>>>
        \o (IF Len(trackers_lst) > 0
            THEN <<<<StrValue(Key_announce), StrValue(trackers_lst[1])>>,
                   <<StrValue(Key_announce_list),
                     ListValue(<<ListValue([i \in 1 .. Len(trackers_lst) |->
                                               StrValue(trackers_lst[i])])>>)>>>>
            ELSE IF Len(peers_lst) > 0
            THEN <<<<StrValue(Key_peers),
                     ListValue([i \in 1 .. Len(peers_lst) |->
                                  LET parts == Split(peers_lst[i])
                                  IN  ListValue([j \in 1 .. Len(parts) |-> StrValue(parts[j])])])>>>>
            ELSE <<>>))

\* write_magnet_link lines 198-204: the magnet link, by its parameters.
magnet_url(btih, dn, trackers_lst, peers_lst) ==
    [xt |-> btih, dn |-> dn, x_pe |-> peers_lst, tr |-> trackers_lst]

\* create_torrent: the metainfo file and the magnet link it writes for a package
\* whose files are all there, and the BTIH and total size it returns.
create_torrent(files, bundle_names, pkg_num, tree_size, trackers_lst, peers_lst, suggested_name, asn, creation_date) ==
    LET file_list == get_file_list(files, bundle_names, pkg_num, tree_size)
        total_size == Sum([i \in 1 .. Len(file_list) |-> file_list[i].length])
        piece_length == PieceLength(total_size)
        pieces == Join(get_pieces(files, file_list, piece_length))
        bencoded_info_section ==
            bencode(info_section(suggested_name, piece_length, pieces, file_list, creation_date))
        btih == Sha1(bencoded_info_section)
        torrent == TorrentDict(bencoded_info_section, creation_date, asn, trackers_lst, peers_lst)
    IN  [torrent |-> bencode(torrent),
         magnet |-> magnet_url(btih, suggested_name, trackers_lst, peers_lst),
         btih |-> btih,
         total_size |-> total_size]

\* ------------------------------------------------------------------ state
VARIABLES
    \* configuration of the archive: the bundle and package sizes every run is given,
    \* and the last component of pkg_root_dir as int() reads it (NotANumber: a name
    \* that is no decimal numeral)
    bundle_size, package_size, root_name,
    \* the log server: the number of entries of the log, and whether it answers a
    \* get-entries request in full ("full") or with any non-empty prefix ("any")
    logSize, server,
    \* the disk under pkg_root_dir: whether the directory exists, the package
    \* directories, the bundle files <<pkg, start, end>> with their contents, the
    \* tree sizes of the STH files, the info files <<pkg, tree_size>>
    rootDir, pkgDirs, bundles, sthFiles, infoFiles,
    \* the disk under torrent_dir: the <<pkg, tree_size>> that have a .torrent and
    \* a .magnet file, and the tree sizes the .magnets and .rss files were written for
    torrentFiles, feedFiles,
    \* the run in progress: its position, its action (auto, expert_getct,
    \* expert_hash), how the last run ended, and the number of runs started
    pc, mode, outcome, runs,
    \* get_ct's locals; sig is what verify_sth is given besides the STH: whether the
    \* log list has the url, and the header and validity of tree_head_signature
    start_index, step_size, sth, sig, verified, req_index, fails, bundle_start, bundle_lst, final,
    \* the locals of process_log and of main's expert_hash branch
    tree_size, start_package, last_package, tasks, computed_root,
    \* a selection function called on its own: the names of the directory listing
    \* it is given, its tree_size argument, and what it returned
    listing, listing_tree_size, selected,
    \* what a run takes from its surroundings when it makes torrents: time.time(),
    \* and the ASN, trackers and peers of the configuration file
    clock, asn, trackers, peers,
    \* a function called on its own: its arguments and what came of the call
    call, result,
    \* get_entries' locals: the status of the last answer (NoStatus: None), and the
    \* number of connections its except clause has opened
    status, reopens

selectVars == <<listing, listing_tree_size, selected>>
btVars == <<clock, asn, trackers, peers>>
callVars == <<call, result>>
connVars == <<status, reopens>>
cfgVars == <<bundle_size, package_size, root_name, server, selectVars, btVars, callVars, connVars>>
envVars == <<bundle_size, package_size, root_name, server, selectVars, btVars, callVars, connVars, logSize, runs>>
archiveVars == <<rootDir, pkgDirs, bundles, sthFiles, infoFiles>>
diskVars == <<rootDir, pkgDirs, bundles, sthFiles, infoFiles, torrentFiles, feedFiles>>
fetchVars == <<start_index, step_size, sth, sig, verified, req_index, fails, bundle_start, bundle_lst, final>>
hashVars == <<tree_size, start_package, last_package, tasks, computed_root>>
vars == <<bundle_size, package_size, root_name, logSize, server,
          rootDir, pkgDirs, bundles, sthFiles, infoFiles, torrentFiles, feedFiles,
          pc, mode, outcome, runs,
          start_index, step_size, sth, sig, verified, req_index, fails, bundle_start, bundle_lst, final,
          tree_size, start_package, last_package, tasks, computed_root,
          listing, listing_tree_size, selected, clock, asn, trackers, peers, call, result,
          status, reopens>>

NotANumber == -1
RootNames == {NotANumber, 1}
BundleSizeArgs == -1 .. MaxBundle
PackageSizeArgs == 1 .. MaxPackage
StepSizeArgs == {Pow2(e) : e \in 0 .. MaxStepExp}

\* A bundle file that gzip.open created and whose contents were never completed.
Torn == [ok |-> FALSE, entries |-> <<>>]
Written(entries) == [ok |-> TRUE, entries |-> entries]

NoSth == [tree_size |-> -1, sha256_root_hash |-> <<>>]
NoSig == [log_known |-> FALSE, hash_algo |-> 0, sig_algo |-> 0, sig_len |-> 0,
          actual_len |-> 0, sig_valid |-> FALSE]
\* The signature headers and log lists a run may meet: hash_algo 4 is SHA-256,
\* sig_algo 1 RSA, 2 DSA, 3 ECDSA; the signature itself is two bytes long.
Signatures == [log_known : BOOLEAN, hash_algo : {3, 4}, sig_algo : {1, 2, 3}, sig_len : {1, 2},
               actual_len : {2}, sig_valid : BOOLEAN]

\* The entries first .. last of the log, in index order.
LogEntries(first, last) == [j \in 1 .. (last - first + 1) |-> first + j - 1]
LeafHashes(entries) == [j \in 1 .. Len(entries) |-> LeafHash(entries[j])]

\* The root hash the log signs for its first n entries (SHA-256 of the empty
\* string for the empty tree).
EmptyTreeHash == <<-2>>
LogRoot(n) == IF n = 0 THEN EmptyTreeHash ELSE MTH(LeafHashes(LogEntries(0, n - 1)))

\* The numbers of entries a get-entries request for `requested` entries, all of
\* them in the log, may be answered with.
ServerAnswers(requested) == IF server = "full" THEN {requested} ELSE 1 .. requested

\* The suggested name of the log, from the configuration file.
suggested_name == <<108, 111, 103>>

\* The time, ASN, trackers ('t', 'u') and peers ('h:1') a run may be given; an
\* automatic run is given the first.
DefaultEnvironment == [clock |-> 1, asn |-> 64496, trackers |-> <<<<116>>>>, peers |-> <<>>]
Environments ==
    {DefaultEnvironment,
     [clock |-> 2, asn |-> 64496, trackers |-> <<<<116>>>>, peers |-> <<>>],
     [clock |-> 1, asn |-> 64497, trackers |-> <<<<116>>>>, peers |-> <<>>],
     [clock |-> 2, asn |-> 64497, trackers |-> <<<<117>>, <<116>>>>, peers |-> <<>>],
     [clock |-> 2, asn |-> 64497, trackers |-> <<>>, peers |-> <<<<104, 58, 49>>>>],
     [clock |-> 2, asn |-> 64497, trackers |-> <<>>, peers |-> <<>>]}

InEnvironment(e) ==
    clock = e.clock /\ asn = e.asn /\ trackers = e.trackers /\ peers = e.peers

\* No function is called on its own, and no call has ended.
NoCall == [fn |-> "none"]
NoResult == [fn |-> "none", ends |-> TRUE, returned |-> <<>>]

\* No selection function has been called on its own.
NotCalled == [fn |-> "none", returned |-> <<>>]

\* The bundle names <<start, end>> in the directory of package k.
BundleNames(files, k) == {<<n[2], n[3]>> : n \in {m \in DOMAIN files : m[1] = k}}

\* ---------------------------------------------------------------- fetcher
\* n is a positive power of two (the definition, not the bit test of the code).
IsPowerOfTwo(n) == \E e \in 0 .. BitWidth : n = Pow2(e)

\* A faulty check: the sign of bundle_size is not looked at.
BundleSizeAcceptedUnsigned(bundle_size_) == BitAnd(bundle_size_, bundle_size_ - 1) = 0

\* get_ct line 293: the bundle_size check.
BundleSizeAccepted(bundle_size_) == bundle_size_ > 0 /\ BitAnd(bundle_size_, bundle_size_ - 1) = 0

\* discover_start_index: the index to resume at, or RaisesValueError when int()
\* of the last component of package_root_dir raises.
RaisesValueError == -1
SetMax(S) == CHOOSE x \in S : \A y \in S : y <= x
LastName(S) == CHOOSE x \in S : \A y \in S : PairLeq(y, x)

discover_start_index(root_exists, dirs, files, root_name_, package_size_, bundle_size_) ==
    IF ~root_exists \/ dirs = {} THEN 0
    ELSE LET bundle_list == BundleNames(files, SetMax(dirs))
         IN  IF bundle_list = {}
             THEN IF root_name_ = NotANumber THEN RaisesValueError
                  ELSE root_name_ * package_size_ * bundle_size_
             ELSE LET last_bundle == LastName(bundle_list)
                  IN  IF last_bundle[2] - last_bundle[1] + 1 = bundle_size_
                      THEN last_bundle[2] + 1
                      ELSE last_bundle[1]

\* get_verifier line 89 and verify_sth: the STH is accepted iff the log is in the
\* log list, the signature header names SHA-256 and RSA or ECDSA, the declared
\* length is the signature's, and the signature verifies.
verify_sth(log_known, hash_algo, sig_algo, sig_len, actual_len, sig_valid) ==
    /\ log_known
    /\ ~(hash_algo # 4 \/ (sig_algo # 3 /\ sig_algo # 1) \/ sig_len # actual_len)
    /\ sig_valid

\* A faulty handle_new_sth: the STH file is written whatever verify_sth says.
handle_new_sth_unverified(ok, files, sth_tree_size) == files \cup {sth_tree_size}

\* handle_new_sth: the STH files after it, verify_sth having returned (ok) or raised.
handle_new_sth(ok, files, sth_tree_size) == IF ok THEN files \cup {sth_tree_size} ELSE files

\* A faulty test: a start index equal to the tree size is let through.
NothingToDoStrict(start_index_, sth_tree_size) ==
    start_index_ >= 0 /\ start_index_ > sth_tree_size

\* get_ct line 306: the test that raises "Nothing to do".
NothingToDo(start_index_, sth_tree_size) ==
    start_index_ >= 0 /\ start_index_ >= sth_tree_size

\* detect_step_size line 228, for a probe answered with entries_count entries.
detect_step_size(entries_count) == Pow2(PyLogFloorDiv(entries_count))

\* get_entries line 194: the last index of the request that starts at i.
RequestEnd(i, step, sth_tree_size) == Min(i + step - 1, sth_tree_size - 1)

\* get_entries line 190: the start of the request that follows the one at i, which
\* was answered with count entries.
NextRequest(i, step, count) == i + step

\* A faulty end test: the range is taken to include tree_size itself.
StreamOverStrict(i, sth_tree_size) == i > sth_tree_size

\* get_entries line 190: range(start, tree_size, step_size) is exhausted at i.
StreamOver(i, sth_tree_size) == i >= sth_tree_size

\* write_new_bundle lines 246-247: the name of the bundle file.
BundleFile(bundle_start_, entries, package_size_, bundle_size_) ==
    <<build_package_dir(bundle_start_, package_size_, bundle_size_),
      bundle_start_, bundle_start_ + Len(entries) - 1>>

\* get_ct lines 329 and 338: what is written, a full bundle inside the loop and
\* the whole remainder after it.
Payload(lst, bundle_size_, is_final) ==
    IF is_final THEN lst ELSE SubSeq(lst, 1, bundle_size_)

\* get_entries line 189: status = None.
NoStatus == 0

\* The statuses other than 200 a log answers with.
ErrorStatuses == {429, 503}

ResetRun ==
    /\ start_index' = 0 /\ step_size' = 0 /\ sth' = NoSth /\ sig' = NoSig /\ verified' = FALSE
    /\ req_index' = 0 /\ fails' = 0 /\ bundle_start' = 0 /\ bundle_lst' = <<>>
    /\ final' = FALSE
    /\ tree_size' = 0 /\ start_package' = 0 /\ last_package' = 0 /\ tasks' = {}
    /\ computed_root' = <<>>

\* The run ends: an exception reached main, or the action returned.
EndRun(how) == pc' = "idle" /\ outcome' = how /\ ResetRun

NoRun ==
    /\ pc = "idle" /\ mode = "none" /\ outcome = "none" /\ runs = 0
    /\ start_index = 0 /\ step_size = 0 /\ sth = NoSth /\ sig = NoSig /\ verified = FALSE
    /\ req_index = 0 /\ fails = 0 /\ bundle_start = 0 /\ bundle_lst = <<>> /\ final = FALSE
    /\ tree_size = 0 /\ start_package = 0 /\ last_package = 0 /\ tasks = {}
    /\ computed_root = <<>>
    /\ listing = {} /\ listing_tree_size = 0 /\ selected = NotCalled
    /\ InEnvironment(DefaultEnvironment)
    /\ call = NoCall /\ result = NoResult
    /\ status = NoStatus /\ reopens = 0

EmptyDisk ==
    /\ rootDir = FALSE /\ pkgDirs = {} /\ bundles = <<>> /\ sthFiles = {} /\ infoFiles = <<>>
    /\ torrentFiles = <<>> /\ feedFiles = {}

\* Automatic runs against a log that grows from empty and answers in full.
Init ==
    /\ bundle_size \in BundleSizeArgs
    /\ package_size \in PackageSizeArgs
    /\ root_name \in RootNames
    /\ logSize = 0 /\ server = "full"
    /\ EmptyDisk
    /\ NoRun

\* get_ct lines 293-300, entered with the given start index and step: the
\* bundle_size check, then the creation of pkg_root_dir.
EnterGetCt(action, start, step) ==
    /\ mode' = action
    /\ IF BundleSizeAccepted(bundle_size)
       THEN /\ rootDir' = TRUE
            /\ pc' = "get_sth"
            /\ start_index' = start /\ step_size' = step
            /\ UNCHANGED <<outcome, sth, sig, verified, req_index, fails, bundle_start, bundle_lst, final>>
            /\ UNCHANGED hashVars
       ELSE /\ EndRun("bundle_size arg must be a power of 2")
            /\ UNCHANGED rootDir
    /\ runs' = runs + 1
    /\ UNCHANGED <<pkgDirs, bundles, sthFiles, infoFiles, torrentFiles, feedFiles, logSize>>
    /\ UNCHANGED cfgVars

\* process_log lines 62-66: an automatic run starts.  get_ct runs with its default
\* step_size, which is the value of bundle_size in atbtct.py.
StartAuto ==
    /\ pc = "idle"
    /\ runs < MaxRuns
    /\ LET resume == discover_start_index(rootDir, pkgDirs, bundles, root_name,
                                          package_size, bundle_size)
       IN  IF resume = RaisesValueError
           THEN /\ mode' = "auto"
                /\ EndRun("ValueError")
                /\ runs' = runs + 1
                /\ UNCHANGED <<diskVars, cfgVars, logSize>>
           ELSE EnterGetCt("auto", resume, bundle_size)

\* main lines 222-225: expert_getct with a start index and a step size, here the
\* first run on an archive.
StartGetCt ==
    /\ pc = "idle"
    /\ outcome = "none"
    /\ \E start \in 0 .. MaxTree, step \in StepSizeArgs :
          EnterGetCt("expert_getct", start, step)

\* get_ct line 303: get_sth.  The log answers with its current tree head, or with
\* a status other than 200; the signature header and the log list are whatever
\* the server and the caller supply.
GetSth ==
    /\ pc = "get_sth"
    /\ \E status_ok \in BOOLEAN :
          IF ~status_ok
          THEN EndRun("Could not fetch STH")
          ELSE /\ sth' = [tree_size |-> logSize, sha256_root_hash |-> LogRoot(logSize)]
               /\ sig' \in Signatures
               /\ pc' = "handle_sth"
               /\ UNCHANGED <<outcome, start_index, step_size, verified, req_index, fails,
                              bundle_start, bundle_lst, final>>
               /\ UNCHANGED hashVars
    /\ UNCHANGED <<diskVars, envVars, mode>>

\* get_ct lines 304-307: handle_new_sth, then the "Nothing to do" test.
HandleNewSth ==
    /\ pc = "handle_sth"
    /\ LET ok == verify_sth(sig.log_known, sig.hash_algo, sig.sig_algo, sig.sig_len,
                            sig.actual_len, sig.sig_valid)
       IN  /\ sthFiles' = handle_new_sth(ok, sthFiles, sth.tree_size)
           /\ IF ~ok
              THEN EndRun("STH verification failed")
              ELSE IF NothingToDo(start_index, sth.tree_size)
              THEN EndRun("Nothing to do")
              ELSE /\ verified' = TRUE
                   /\ sig' = NoSig
                   /\ pc' = "probe"
                   /\ UNCHANGED <<outcome, start_index, step_size, sth, req_index, fails,
                                  bundle_start, bundle_lst, final>>
                   /\ UNCHANGED hashVars
    /\ UNCHANGED <<rootDir, pkgDirs, bundles, infoFiles, torrentFiles, feedFiles>>
    /\ UNCHANGED <<envVars, mode>>

\* get_entries lines 192-211: a request that is answered with a status other than
\* 200 (lines 203-204: sleep, and the loop goes round with the same c), or that
\* raises (lines 205-209: status = None, c = create_new_https_connection, sleep);
\* the same request is issued again.
RequestFails ==
    /\ pc \in {"probe", "fetch"}
    /\ pc = "fetch" => req_index < sth.tree_size
    /\ fails < MaxFail
    /\ fails' = fails + 1
    /\ \/ /\ status' \in ErrorStatuses
          /\ reopens' = reopens
       \/ /\ reopens < MaxReopen
          /\ status' = NoStatus
          /\ reopens' = reopens + 1
    /\ UNCHANGED <<start_index, step_size, sth, sig, verified, req_index, bundle_start, bundle_lst, final>>
    /\ UNCHANGED <<bundle_size, package_size, root_name, server, selectVars, btVars, callVars, logSize, runs>>
    /\ UNCHANGED <<diskVars, hashVars, pc, mode, outcome>>

\* get_ct lines 311-318: detect_step_size (one request for the entries 0 .. step - 1,
\* answered with at least one and at most the requested and available entries),
\* then the rounding of start_index.
Probe ==
    /\ pc = "probe"
    /\ \E entries_count \in ServerAnswers(Min(step_size, logSize)) :
          step_size' = detect_step_size(entries_count)
    /\ start_index' = (start_index \div bundle_size) * bundle_size
    /\ bundle_start' = start_index'
    /\ req_index' = start_index'
    /\ bundle_lst' = <<>>
    /\ fails' = 0
    /\ pc' = "fetch"
    /\ UNCHANGED <<sth, sig, verified, final>>
    /\ status' = 200 /\ reopens' = 0
    /\ UNCHANGED <<bundle_size, package_size, root_name, server, selectVars, btVars, callVars, logSize, runs>>
    /\ UNCHANGED <<diskVars, hashVars, mode, outcome>>

\* get_ct lines 322-326: one pass of the loop, up to the decision to write.  The
\* request is answered with count entries, from the requested start on.
FetchEntries ==
    /\ pc = "fetch"
    /\ req_index < sth.tree_size
    /\ \E count \in ServerAnswers(RequestEnd(req_index, step_size, sth.tree_size) - req_index + 1) :
          /\ bundle_lst' = bundle_lst \o LogEntries(req_index, req_index + count - 1)
          /\ req_index' = NextRequest(req_index, step_size, count)
    /\ fails' = 0
    /\ final' = FALSE
    /\ pc' = IF Len(bundle_lst') >= bundle_size THEN "wb_mkdir" ELSE "fetch"
    /\ UNCHANGED <<start_index, step_size, sth, sig, verified, bundle_start>>
    /\ status' = 200 /\ reopens' = reopens
    /\ UNCHANGED <<bundle_size, package_size, root_name, server, selectVars, btVars, callVars, logSize, runs>>
    /\ UNCHANGED <<diskVars, hashVars, mode, outcome>>

\* get_ct line 335: the loop is over; what is left in the buffer is written.
FetchEnd ==
    /\ pc = "fetch"
    /\ StreamOver(req_index, sth.tree_size)
    /\ IF Len(bundle_lst) > 0
       THEN final' = TRUE /\ pc' = "wb_mkdir"
       ELSE final' = FALSE /\ pc' = "fetched"
    /\ UNCHANGED <<start_index, step_size, sth, sig, verified, req_index, fails, bundle_start, bundle_lst>>
    /\ UNCHANGED <<diskVars, envVars, hashVars, mode, outcome>>

\* write_new_bundle lines 240-243: the package directory is created if missing.
WriteBundleMkdir ==
    /\ pc = "wb_mkdir"
    /\ pkgDirs' = pkgDirs \cup {build_package_dir(bundle_start, package_size, bundle_size)}
    /\ pc' = "wb_open"
    /\ UNCHANGED <<rootDir, bundles, sthFiles, infoFiles, torrentFiles, feedFiles>>
    /\ UNCHANGED <<fetchVars, envVars, hashVars, mode, outcome>>

\* write_new_bundle line 254: gzip.open creates (or truncates) the file under its
\* final name.
WriteBundleOpen ==
    /\ pc = "wb_open"
    /\ LET name == BundleFile(bundle_start, Payload(bundle_lst, bundle_size, final),
                              package_size, bundle_size)
       IN  bundles' = (name :> Torn) @@ bundles
    /\ pc' = "wb_write"
    /\ UNCHANGED <<rootDir, pkgDirs, sthFiles, infoFiles, torrentFiles, feedFiles>>
    /\ UNCHANGED <<fetchVars, envVars, hashVars, mode, outcome>>

\* write_new_bundle line 255 and get_ct lines 331-332: the contents are written
\* and the file closed; inside the loop the buffer and bundle_start advance.
WriteBundleWrite ==
    /\ pc = "wb_write"
    /\ LET entries == Payload(bundle_lst, bundle_size, final)
           name == BundleFile(bundle_start, entries, package_size, bundle_size)
       IN  bundles' = (name :> Written(entries)) @@ bundles
    /\ IF final
       THEN pc' = "fetched" /\ UNCHANGED <<bundle_lst, bundle_start>>
       ELSE /\ pc' = "fetch"
            /\ bundle_lst' = SubSeq(bundle_lst, bundle_size + 1, Len(bundle_lst))
            /\ bundle_start' = bundle_start + bundle_size
    /\ UNCHANGED <<start_index, step_size, sth, sig, verified, req_index, fails, final>>
    /\ UNCHANGED <<rootDir, pkgDirs, sthFiles, infoFiles, torrentFiles, feedFiles>>
    /\ UNCHANGED <<envVars, hashVars, mode, outcome>>

\* main lines 222-225: expert_getct ends when get_ct returns.
GetCtReturns ==
    /\ pc = "fetched"
    /\ mode = "expert_getct"
    /\ EndRun("done")
    /\ UNCHANGED <<diskVars, envVars, mode>>

\* The process is killed: what is on disk stays, everything else is lost.
Kill ==
    /\ pc # "idle"
    /\ EndRun("killed")
    /\ UNCHANGED <<diskVars, envVars, mode>>

\* The log accepts a new entry.  A run only asks for entries below the tree size
\* of the STH it holds, so growth during a run changes nothing the run sees.
LogGrows ==
    /\ pc = "idle"
    /\ logSize < MaxGrowth
    /\ logSize' = logSize + 1
    /\ UNCHANGED <<diskVars, cfgVars, runs, fetchVars, hashVars, pc, mode, outcome>>

\* ------------------------------------------------------ hasher, packager
\* compute_package lines 276-286 for package pkg_num: the bundles it reads, and
\* how it ends.  os.listdir raises on a missing directory and gzip on a file whose
\* contents were never completed; get_partial_tree_hash loops on an empty list.
PackageBundles(dirs, files, pkg_num, tree_size_) ==
    LET bundle_list == get_bundle_list(BundleNames(files, pkg_num), tree_size_)
    IN  [i \in 1 .. Len(bundle_list) |-> files[<<pkg_num, bundle_list[i][1], bundle_list[i][2]>>]]

PackageOutcome(dirs, files, pkg_num, tree_size_) ==
    IF pkg_num \notin dirs THEN "raises"
    ELSE LET read == PackageBundles(dirs, files, pkg_num, tree_size_)
             bad == {i \in 1 .. Len(read) :
                        ~read[i].ok \/ PartialTreeLoops(LeafHashes(read[i].entries))}
         IN  IF bad # {}
             THEN (IF ~read[CHOOSE i \in bad : \A j \in bad : i <= j].ok THEN "raises" ELSE "loops")
             ELSE IF PartialTreeLoops(read) THEN "loops" ELSE "returns"

compute_package(dirs, files, pkg_num, tree_size_) ==
    LET read == PackageBundles(dirs, files, pkg_num, tree_size_)
        partial_tree_hash_list ==
            [i \in 1 .. Len(read) |-> get_partial_tree_hash(LeafHashes(read[i].entries))]
    IN  get_partial_tree_hash(partial_tree_hash_list)

\* The files a task of compute_packages opens for writing (write_tree_hash lines
\* 101-105, under pkg_root_dir), and those a task of create_torrents does
\* (write_magnet_link and write_torrent_file, under torrent_dir).
HashingTaskWrites(pkg_num, tree_size_) == {build_info_file_name(pkg_num, tree_size_)}
TorrentTaskWrites(pkg_num, tree_size_) ==
    {build_magnet_name(suggested_name, pkg_num, tree_size_),
     build_torrent_name(suggested_name, pkg_num, tree_size_)}

\* write_tree_hash line 106: the info file as first written.
NewInfo(root_hash) == [pkg_hash |-> root_hash, merkle_proof |-> <<>>]

\* compute_proofs lines 256-258: write_proof for every package of the run.
write_proofs(infos, tree_size_, proofs) ==
    [n \in DOMAIN infos |->
        IF n[2] = tree_size_ /\ n[1] \in DOMAIN proofs
        THEN [infos[n] EXCEPT !.merkle_proof = proofs[n[1]]]
        ELSE infos[n]]

\* process_log lines 68-72: get_ct has returned; the packages to hash.  (The
\* rounding of start_index inside get_ct does not change the quotient.)
StartHashing ==
    /\ pc = "fetched"
    /\ mode = "auto"
    /\ tree_size' = sth.tree_size
    /\ start_package' = start_index \div (bundle_size * package_size)
    /\ last_package' = (sth.tree_size - 1) \div (bundle_size * package_size)
    /\ tasks' = start_package' .. last_package'
    /\ pc' = "hashing"
    /\ UNCHANGED computed_root
    /\ UNCHANGED <<diskVars, envVars, fetchVars, mode, outcome>>

\* main lines 227-229: expert_hash for the packages start .. last of the archive
\* at the tree size of its latest STH.
StartExpertHash ==
    /\ pc = "idle"
    /\ runs < MaxRuns
    /\ runs' = runs + 1
    /\ sthFiles # {}
    /\ LET t == SetMax(sthFiles)
           n == (t - 1) \div (bundle_size * package_size)
       IN  /\ t >= 1
           /\ tree_size' = t
           /\ \E last \in 0 .. n : \E start \in 0 .. last :
                 /\ start_package' = start
                 /\ last_package' = last
                 /\ tasks' = start .. last
    /\ mode' = "expert_hash"
    /\ pc' = "hashing"
    /\ UNCHANGED computed_root
    /\ UNCHANGED <<diskVars, cfgVars, logSize, fetchVars, outcome>>

\* compute_packages: one task of the pool, compute_package(pkg_num).  A task that
\* raises ends the run; one that loops keeps the pool from ever returning.
ComputePackage ==
    /\ pc = "hashing"
    /\ \E pkg_num \in tasks :
          LET how == PackageOutcome(pkgDirs, bundles, pkg_num, tree_size)
          IN  IF how = "returns"
              THEN /\ infoFiles' = (<<pkg_num, tree_size>> :>
                                       NewInfo(compute_package(pkgDirs, bundles, pkg_num, tree_size)))
                                   @@ infoFiles
                   /\ tasks' = tasks \ {pkg_num}
                   /\ UNCHANGED <<pc, outcome, fetchVars, tree_size, start_package, last_package,
                                  computed_root>>
              ELSE IF how = "raises"
              THEN /\ EndRun("compute_package raised")
                   /\ UNCHANGED infoFiles
              ELSE /\ pc' = "looping"
                   /\ UNCHANGED <<infoFiles, outcome, fetchVars, hashVars>>
    /\ UNCHANGED <<rootDir, pkgDirs, bundles, sthFiles, torrentFiles, feedFiles>>
    /\ UNCHANGED <<envVars, mode>>

\* A faulty pool: map returns before its tasks are done.
PoolReturnsEarly(pending) == TRUE

\* compute_packages lines 305-307 and create_torrents lines 474-476: p.map returns
\* (and the pool is joined) once none of its tasks is pending.
PoolReturns(pending) == pending = {}

\* process_log lines 74-76 and main lines 231-233: compute_proofs, once every
\* task of the pool is done.  With an empty hash list cur[0] raises IndexError
\* after the proofs are written.
ComputeProofs ==
    /\ pc = "hashing"
    /\ PoolReturns(tasks)
    /\ LET hash_list == get_pkg_hash_list(infoFiles, tree_size)
           end == compute_proofs(hash_list, start_package, last_package)
       IN  /\ infoFiles' = write_proofs(infoFiles, tree_size, end.proofs)
           /\ IF Len(end.cur) = 0
              THEN EndRun("IndexError")
              ELSE /\ computed_root' = end.cur[1].hash
                   /\ pc' = "check"
                   /\ UNCHANGED <<outcome, fetchVars, tree_size, start_package, last_package, tasks>>
    /\ UNCHANGED <<rootDir, pkgDirs, bundles, sthFiles, torrentFiles, feedFiles>>
    /\ UNCHANGED <<envVars, mode>>

\* A faulty acceptance check: every computed root passes.
RootAcceptedAlways(computed, signed) == TRUE

\* process_log lines 78-82: the acceptance check.  Both sides are the base64 text
\* of a digest, equal iff the digests are.
RootAccepted(computed, signed) == computed = signed

CheckRoot ==
    /\ pc = "check"
    /\ mode = "auto"
    /\ IF RootAccepted(computed_root, sth.sha256_root_hash)
       THEN /\ pc' = "torrents"
            /\ tasks' = start_package .. last_package
            /\ UNCHANGED <<outcome, fetchVars, tree_size, start_package, last_package, computed_root>>
       ELSE EndRun("Invalid Entries")
    /\ UNCHANGED <<diskVars, envVars, mode>>

\* main line 234: expert_hash prints the root and ends.
PrintRoot ==
    /\ pc = "check"
    /\ mode = "expert_hash"
    /\ EndRun("done")
    /\ UNCHANGED <<diskVars, envVars, mode>>

\* The torrent files create_torrent writes for pkg_num at tree_size_ in the
\* archive given, under the surroundings given.
TorrentOf(bundle_files, sth_names, info_files, pkg_num, tree_size_, e) ==
    LET made == create_torrent(
                    ArchiveFiles(bundle_files, [t \in sth_names |-> LogRoot(t)], info_files),
                    BundleNames(bundle_files, pkg_num), pkg_num, tree_size_,
                    e.trackers, e.peers, suggested_name, e.asn, e.clock)
    IN  [torrent |-> made.torrent, magnet |-> made.magnet]

\* create_torrents lines 470-475: create_torrent for one package of the pool;
\* the exception of a task whose files are not all there ends the run.
CreateTorrent ==
    /\ pc = "torrents"
    /\ \E pkg_num \in tasks :
          IF FileNotFound(pkgDirs, sthFiles, DOMAIN infoFiles, pkg_num, tree_size)
          THEN /\ EndRun("FileNotFoundError")
               /\ UNCHANGED torrentFiles
          ELSE /\ torrentFiles' =
                      (<<pkg_num, tree_size>> :>
                          TorrentOf(bundles, sthFiles, infoFiles, pkg_num, tree_size,
                                    [clock |-> clock, asn |-> asn, trackers |-> trackers,
                                     peers |-> peers]))
                      @@ torrentFiles
               /\ tasks' = tasks \ {pkg_num}
               /\ UNCHANGED <<fetchVars, pc, outcome>>
               /\ UNCHANGED <<tree_size, start_package, last_package, computed_root>>
    /\ UNCHANGED <<archiveVars, feedFiles, envVars, mode>>

\* create_torrents lines 478-479: merge_magnets and update_rss_feed; the run is over.
WriteFeeds ==
    /\ pc = "torrents"
    /\ PoolReturns(tasks)
    /\ feedFiles' = feedFiles \cup {tree_size}
    /\ EndRun("done")
    /\ UNCHANGED <<archiveVars, torrentFiles, envVars, mode>>

\* --------------------------------------------------------- specifications
\* Automatic runs (process_log), one after the other, against a growing log whose
\* requests all succeed; the process may be killed at any point.
Next ==
    \/ StartAuto
    \/ GetSth
    \/ HandleNewSth
    \/ Probe
    \/ FetchEntries
    \/ FetchEnd
    \/ WriteBundleMkdir
    \/ WriteBundleOpen
    \/ WriteBundleWrite
    \/ StartHashing
    \/ ComputePackage
    \/ ComputeProofs
    \/ CheckRoot
    \/ CreateTorrent
    \/ WriteFeeds
    \/ Kill
    \/ LogGrows

Spec == Init /\ [][Next]_vars

\* One uninterrupted expert_getct run on a new archive, for every log size, start
\* index and step size, against a server that may answer any request in part.
InitFetch ==
    /\ bundle_size \in BundleSizeArgs
    /\ package_size \in PackageSizeArgs
    /\ root_name = NotANumber
    /\ logSize \in 0 .. MaxTree /\ server \in {"full", "any"}
    /\ EmptyDisk
    /\ NoRun

NextFetch ==
    \/ StartGetCt
    \/ GetSth
    \/ HandleNewSth
    \/ RequestFails
    \/ Probe
    \/ FetchEntries
    \/ FetchEnd
    \/ WriteBundleMkdir
    \/ WriteBundleOpen
    \/ WriteBundleWrite
    \/ GetCtReturns

SpecFetch == InitFetch /\ [][NextFetch]_vars

\* The same run of a process that is never killed nor suspended for ever: a
\* sequential program takes its next step, and a request that has failed is issued
\* again until it is answered (RequestFails is not forced, and is bounded).
FetchProgress ==
    \/ GetSth
    \/ HandleNewSth
    \/ Probe
    \/ FetchEntries
    \/ FetchEnd
    \/ WriteBundleMkdir
    \/ WriteBundleOpen
    \/ WriteBundleWrite
    \/ GetCtReturns

SpecFetchLive == InitFetch /\ [][NextFetch]_vars /\ WF_vars(FetchProgress)

\* The names a listing is made of, and the listings.
Names == (0 .. MaxName) \X (0 .. MaxName)

RECURSIVE ListingsOf(_)
ListingsOf(n) ==
    IF n = 0 THEN {{}}
    ELSE LET smaller == ListingsOf(n - 1)
         IN  smaller \cup {l \cup {x} : l \in smaller, x \in Names}

\* The info file of name n = <<pkg, tree_size>> as a hasher run at that tree size
\* left it; its pkg_hash is told apart from that of every other file.
InfoOfName(n) == [pkg_hash |-> <<n[1], n[2]>>, merkle_proof |-> <<>>]

\* get_bundle_list and get_pkg_hash_list on their own, on any listing of bundle
\* names <<start, end>> (start <= end) or of info file names <<pkg, tree_size>>.
InitSelect ==
    /\ bundle_size = 1 /\ package_size = 1 /\ root_name = NotANumber
    /\ logSize = 0 /\ server = "full"
    /\ EmptyDisk
    /\ pc = "idle" /\ mode = "none" /\ outcome = "none" /\ runs = 0
    /\ start_index = 0 /\ step_size = 0 /\ sth = NoSth /\ sig = NoSig /\ verified = FALSE
    /\ req_index = 0 /\ fails = 0 /\ bundle_start = 0 /\ bundle_lst = <<>> /\ final = FALSE
    /\ tree_size = 0 /\ start_package = 0 /\ last_package = 0 /\ tasks = {}
    /\ computed_root = <<>>
    /\ listing \in ListingsOf(MaxListing)
    /\ listing_tree_size \in 0 .. MaxName + 2
    /\ selected = NotCalled
    /\ InEnvironment(DefaultEnvironment)
    /\ call = NoCall /\ result = NoResult
    /\ status = NoStatus /\ reopens = 0

ListBundles ==
    /\ selected = NotCalled
    /\ \A n \in listing : n[1] <= n[2]
    /\ selected' = [fn |-> "get_bundle_list",
                    returned |-> get_bundle_list(listing, listing_tree_size)]
    /\ UNCHANGED <<listing, listing_tree_size>>
    /\ UNCHANGED <<bundle_size, package_size, root_name, server, btVars, callVars, connVars, logSize, runs>>
    /\ UNCHANGED <<diskVars, fetchVars, hashVars, pc, mode, outcome>>

ListInfoFiles ==
    /\ selected = NotCalled
    /\ selected' = [fn |-> "get_pkg_hash_list",
                    returned |-> get_pkg_hash_list([n \in listing |-> InfoOfName(n)],
                                                   listing_tree_size)]
    /\ UNCHANGED <<listing, listing_tree_size>>
    /\ UNCHANGED <<bundle_size, package_size, root_name, server, btVars, callVars, connVars, logSize, runs>>
    /\ UNCHANGED <<diskVars, fetchVars, hashVars, pc, mode, outcome>>

NextSelect ==
    \/ ListBundles
    \/ ListInfoFiles

SpecSelect == InitSelect /\ [][NextSelect]_vars

\* The bundle files of the entries 0 .. t - 1 as uninterrupted fetches leave them:
\* one file per bundle_size_ entries, the last one holding the remainder.
CanonicalBundles(t, package_size_, bundle_size_) ==
    LET names == {<<build_package_dir(s, package_size_, bundle_size_), s,
                    Min(s + bundle_size_ - 1, t - 1)>> :
                     s \in {i \in 0 .. t - 1 : i % bundle_size_ = 0}}
    IN  [n \in names |-> Written(LogEntries(n[2], n[3]))]

\* The partial bundle a fetch at the earlier tree size t0 left behind, if any.
StaleBundle(t0, package_size_, bundle_size_) ==
    IF t0 % bundle_size_ = 0 THEN <<>>
    ELSE LET s == (t0 \div bundle_size_) * bundle_size_
         IN  <<build_package_dir(s, package_size_, bundle_size_), s, t0 - 1>>
                :> Written(LogEntries(s, t0 - 1))

\* expert_hash runs on an archive that fetches have filled for the tree size t,
\* possibly after an earlier fetch at a smaller tree size t0.
InitHash ==
    /\ bundle_size \in {b \in BundleSizeArgs : BundleSizeAccepted(b)}
    /\ package_size \in PackageSizeArgs
    /\ root_name = NotANumber
    /\ logSize \in 1 .. MaxTree /\ server = "full"
    /\ \E t0 \in 0 .. logSize - 1 :
          /\ bundles = CanonicalBundles(logSize, package_size, bundle_size)
                          @@ StaleBundle(t0, package_size, bundle_size)
          /\ sthFiles = {logSize} \cup (IF t0 > 0 THEN {t0} ELSE {})
    /\ rootDir = TRUE
    /\ pkgDirs = {n[1] : n \in DOMAIN bundles}
    /\ infoFiles = <<>> /\ torrentFiles = <<>> /\ feedFiles = {}
    /\ NoRun

NextHash ==
    \/ StartExpertHash
    \/ ComputePackage
    \/ ComputeProofs
    \/ PrintRoot

SpecHash == InitHash /\ [][NextHash]_vars

\* The info files after expert_hash for the packages 0 .. last of the archive at
\* the tree size t.
HashedArchive(info_files, dirs, bundle_files, t, last) ==
    LET hashed == [n \in {<<k, t>> : k \in 0 .. last} |->
                      NewInfo(compute_package(dirs, bundle_files, n[1], t))] @@ info_files
    IN  write_proofs(hashed, t, compute_proofs(get_pkg_hash_list(hashed, t), 0, last).proofs)

\* expert_bt on an archive that expert runs have fetched, hashed and packaged
\* whole at the tree size logSize, after a fetch and a hashing at the smaller
\* tree size t0.
InitBt ==
    /\ bundle_size \in {b \in BundleSizeArgs : BundleSizeAccepted(b)}
    /\ package_size \in PackageSizeArgs
    /\ root_name = NotANumber
    /\ logSize \in 2 .. MaxGrowth /\ server = "full"
    /\ \E t0 \in 1 .. logSize - 1 :
          LET early == CanonicalBundles(t0, package_size, bundle_size)
              late == CanonicalBundles(logSize, package_size, bundle_size)
                         @@ StaleBundle(t0, package_size, bundle_size)
              dirs == {n[1] : n \in DOMAIN late}
              last0 == (t0 - 1) \div (bundle_size * package_size)
              last == (logSize - 1) \div (bundle_size * package_size)
              infos0 == HashedArchive(<<>>, dirs, early, t0, last0)
              infos == HashedArchive(infos0, dirs, late, logSize, last)
          IN  /\ bundles = late
              /\ pkgDirs = dirs
              /\ sthFiles = {t0, logSize}
              /\ infoFiles = infos
              /\ torrentFiles = [n \in {<<k, logSize>> : k \in 0 .. last} |->
                                    TorrentOf(late, {t0, logSize}, infos, n[1], logSize,
                                              DefaultEnvironment)]
              /\ feedFiles = {logSize}
    /\ rootDir = TRUE
    /\ NoRun

\* main lines 235-244: expert_bt for the packages start .. last at the tree size
\* of one of the STHs of the archive, in the surroundings of this run.
StartExpertBt ==
    /\ pc = "idle"
    /\ outcome = "none"
    /\ runs' = runs + 1
    /\ \E t \in sthFiles :
          /\ tree_size' = t
          /\ \E last \in 0 .. (logSize - 1) \div (bundle_size * package_size) :
             \E start \in 0 .. last :
                 /\ start_package' = start
                 /\ last_package' = last
                 /\ tasks' = start .. last
    /\ \E e \in Environments :
          clock' = e.clock /\ asn' = e.asn /\ trackers' = e.trackers /\ peers' = e.peers
    /\ mode' = "expert_bt"
    /\ pc' = "torrents"
    /\ UNCHANGED computed_root
    /\ UNCHANGED <<diskVars, bundle_size, package_size, root_name, server, selectVars, callVars, connVars,
                   logSize, fetchVars, outcome>>

NextBt ==
    \/ StartExpertBt
    \/ CreateTorrent
    \/ WriteFeeds

SpecBt == InitBt /\ [][NextBt]_vars

\* ------------------------------------------------- functions on their own
\* The total sizes create_torrent is given: the multiples of 1500 * 8192 bytes up
\* to MaxUnits of them, one byte less and 1499 bytes more than each, and the
\* sizes 3,000,000, 30,000,000 and 300,000,000.
TotalSizes ==
    UNION {{u * 1500 * 8192 - 1, u * 1500 * 8192, u * 1500 * 8192 + 1499} : u \in 1 .. MaxUnits}
        \cup {0, 1, 3000000, 30000000, 300000000}

\* Everything but the call and its result is as before any run.
NoProgram ==
    /\ bundle_size = 1 /\ package_size = 1 /\ root_name = NotANumber
    /\ logSize = 0 /\ server = "full"
    /\ EmptyDisk
    /\ pc = "idle" /\ mode = "none" /\ outcome = "none" /\ runs = 0
    /\ start_index = 0 /\ step_size = 0 /\ sth = NoSth /\ sig = NoSig /\ verified = FALSE
    /\ req_index = 0 /\ fails = 0 /\ bundle_start = 0 /\ bundle_lst = <<>> /\ final = FALSE
    /\ tree_size = 0 /\ start_package = 0 /\ last_package = 0 /\ tasks = {}
    /\ computed_root = <<>>
    /\ listing = {} /\ listing_tree_size = 0 /\ selected = NotCalled
    /\ InEnvironment(DefaultEnvironment)
    /\ status = NoStatus /\ reopens = 0

\* The lists of at most MaxFiles file lengths of at most MaxFileLen bytes.
RECURSIVE LengthLists(_)
LengthLists(n) ==
    IF n = 0 THEN {<<>>}
    ELSE LET shorter == LengthLists(n - 1)
         IN  shorter \cup {Append(l, len) : l \in {x \in shorter : Len(x) = n - 1},
                                            len \in 0 .. MaxFileLen}

\* Files of the lengths given whose bytes are numbered through: byte j of the
\* concatenation of the files is j.  File i is at the path <<i>>.
FilesOfLengths(lengths) ==
    {[path |-> <<i>>,
      bytes |-> [j \in 1 .. lengths[i] |-> Sum(SubSeq(lengths, 1, i - 1)) + j]] :
        i \in 1 .. Len(lengths)}

FileListOfLengths(lengths) ==
    [i \in 1 .. Len(lengths) |-> [length |-> lengths[i], path |-> <<i>>]]

\* The lists of at most n hashes, each the leaf hash of the entry 0 or 1.
RECURSIVE HashLists(_)
HashLists(n) ==
    IF n = 0 THEN {<<>>}
    ELSE LET shorter == HashLists(n - 1)
         IN  shorter \cup {Append(l, LeafHash(e)) : l \in {x \in shorter : Len(x) = n - 1},
                                                    e \in {0, 1}}

\* The bundle files of the one package directory compute_package is given on
\* its own: none, a bundle of no entry, a torn bundle, and whole bundles.
PackageContents ==
    {<<>>,
     <<0, 0, 0>> :> Written(<<>>),
     <<0, 0, 0>> :> Torn,
     <<0, 0, 0>> :> Written(LogEntries(0, 0)),
     (<<0, 0, 1>> :> Written(LogEntries(0, 1))) @@ (<<0, 2, 2>> :> Written(LogEntries(2, 2)))}

\* The dicts bencode is given on its own: at most MaxItems items, in every
\* insertion order, under the keys 'a', 'b', 'ab', 'B'; the values are an int, a
\* str, the list [2, 'x'], a dict, and a list that holds a dict and an int.
DictKeys == {<<97>>, <<98>>, <<97, 98>>, <<66>>}

RECURSIVE KeyOrders(_)
KeyOrders(n) ==
    IF n = 0 THEN {<<>>}
    ELSE LET shorter == KeyOrders(n - 1)
         IN  shorter \cup {Append(ks, k) : ks \in {x \in shorter : Len(x) = n - 1},
                                           k \in DictKeys}

InnerList == ListValue(<<IntValue(2), StrValue(<<120>>)>>)
InnerDict == DictValue(<<<<StrValue(<<98>>), InnerList>>, <<StrValue(<<97>>), IntValue(1)>>>>)
DictValues ==
    {IntValue(1), StrValue(<<120>>), InnerList, InnerDict,
     ListValue(<<InnerDict, IntValue(1)>>)}

BencodeArgs ==
    UNION {{DictValue([i \in 1 .. Len(ks) |-> <<StrValue(ks[i]), vs[i]>>]) :
               vs \in [1 .. Len(ks) -> DictValues]} :
           ks \in {x \in KeyOrders(MaxItems) : \A i, j \in 1 .. Len(x) : x[i] = x[j] => i = j}}

Returns(value) == [fn |-> call.fn, ends |-> TRUE, returned |-> value]
NeverReturns == [fn |-> call.fn, ends |-> FALSE, returned |-> <<>>]

InitCall ==
    /\ NoProgram
    /\ result = NoResult
    /\ \/ \E t \in TotalSizes : call = [fn |-> "piece_length", total_size |-> t]
       \/ \E n \in 1 .. MaxAnswer : call = [fn |-> "detect_step_size", entries_count |-> n]
       \/ \E l \in LengthLists(MaxFiles) \ {<<>>} : \E len \in 1 .. MaxPieceLen :
              call = [fn |-> "get_pieces", lengths |-> l, piece_length |-> len]
       \/ \E l \in HashLists(MaxHashes) :
              call = [fn |-> "get_partial_tree_hash", entry_hashes |-> l]
       \/ \E obj \in BencodeArgs : call = [fn |-> "bencode", obj |-> obj]
       \/ \E f \in PackageContents : \E t \in 1 .. 3 :
              call = [fn |-> "compute_package", files |-> f, tree_size |-> t]

\* create_torrent line 238 on the total size given.
CallPieceLength ==
    /\ call.fn = "piece_length" /\ result = NoResult
    /\ result' = Returns(PieceLength(call.total_size))
    /\ UNCHANGED <<call, diskVars, fetchVars, hashVars, pc, mode, outcome>>
    /\ UNCHANGED <<bundle_size, package_size, root_name, server, selectVars, btVars, connVars, logSize, runs>>

\* detect_step_size line 228 on a probe answered with entries_count entries.
CallDetectStepSize ==
    /\ call.fn = "detect_step_size" /\ result = NoResult
    /\ result' = Returns(detect_step_size(call.entries_count))
    /\ UNCHANGED <<call, diskVars, fetchVars, hashVars, pc, mode, outcome>>
    /\ UNCHANGED <<bundle_size, package_size, root_name, server, selectVars, btVars, connVars, logSize, runs>>

\* get_pieces on the files and the piece length given.
CallGetPieces ==
    /\ call.fn = "get_pieces" /\ result = NoResult
    /\ result' = Returns(get_pieces(FilesOfLengths(call.lengths), FileListOfLengths(call.lengths),
                                    call.piece_length))
    /\ UNCHANGED <<call, diskVars, fetchVars, hashVars, pc, mode, outcome>>
    /\ UNCHANGED <<bundle_size, package_size, root_name, server, selectVars, btVars, connVars, logSize, runs>>

\* get_partial_tree_hash on the list given.
CallPartialTreeHash ==
    /\ call.fn = "get_partial_tree_hash" /\ result = NoResult
    /\ result' = IF PartialTreeLoops(call.entry_hashes) THEN NeverReturns
                 ELSE Returns(get_partial_tree_hash(call.entry_hashes))
    /\ UNCHANGED <<call, diskVars, fetchVars, hashVars, pc, mode, outcome>>
    /\ UNCHANGED <<bundle_size, package_size, root_name, server, selectVars, btVars, connVars, logSize, runs>>

\* compute_package for the package 0, whose directory exists and holds the
\* bundle files given.
CallComputePackage ==
    /\ call.fn = "compute_package" /\ result = NoResult
    /\ LET how == PackageOutcome({0}, call.files, 0, call.tree_size)
       IN  result' = IF how = "loops" THEN NeverReturns
                     ELSE IF how = "raises" THEN Returns(<<>>)
                     ELSE Returns(compute_package({0}, call.files, 0, call.tree_size))
    /\ UNCHANGED <<call, diskVars, fetchVars, hashVars, pc, mode, outcome>>
    /\ UNCHANGED <<bundle_size, package_size, root_name, server, selectVars, btVars, connVars, logSize, runs>>

\* bencode on the dict given.
CallBencode ==
    /\ call.fn = "bencode" /\ result = NoResult
    /\ result' = Returns(bencode(call.obj))
    /\ UNCHANGED <<call, diskVars, fetchVars, hashVars, pc, mode, outcome>>
    /\ UNCHANGED <<bundle_size, package_size, root_name, server, selectVars, btVars, connVars, logSize, runs>>

NextCall ==
    \/ CallBencode
    \/ CallPieceLength
    \/ CallDetectStepSize
    \/ CallGetPieces
    \/ CallPartialTreeHash
    \/ CallComputePackage

SpecCall == InitCall /\ [][NextCall]_vars

\* ------------------------------------------------------------- properties
\* The number of the last package of an archive of tree_size_ entries.
LastPackageOf(tree_size_) == (tree_size_ - 1) \div (bundle_size * package_size)

\* Every package 0 .. last of the archive has its info file for the tree size of
\* the run.
AllPackagesHashed ==
    \A k \in 0 .. LastPackageOf(tree_size) : <<k, tree_size>> \in DOMAIN infoFiles

\* C1: on an archive in canonical layout, with bundle_size and package_size powers
\* of two and an info file for every package 0 .. last, the root compute_proofs
\* returns is the RFC 6962 Merkle Tree Hash of the leaf hashes of the entries
\* 0 .. tree_size - 1 in index order.
C1_GlobalRootIsMTH ==
    (/\ pc = "check"
     /\ IsPowerOfTwo(bundle_size) /\ IsPowerOfTwo(package_size)
     /\ AllPackagesHashed)
    => computed_root = LogRoot(tree_size)

\* C1 happens: three packages, the last one of a single partial bundle.
C1_Witness ==
    /\ pc = "check"
    /\ bundle_size = 2 /\ package_size = 1 /\ tree_size = 5
    /\ AllPackagesHashed
    /\ computed_root = LogRoot(5)

\* The root a verifier obtains from the digest h of the node at position pos among
\* width nodes and the proof: the sibling is on the right when the position is
\* even, on the left when it is odd; a node without sibling moves up unchanged.
\* <<>> (which is no digest) when the proof is too short or too long.
RECURSIVE FoldProof(_, _, _, _)
FoldProof(h, proof, pos, width) ==
    IF width <= 1 THEN (IF proof = <<>> THEN h ELSE <<>>)
    ELSE IF pos % 2 = 1
    THEN (IF proof = <<>> THEN <<>>
          ELSE FoldProof(NodeHash(proof[1], h), Tail(proof), pos \div 2, (width + 1) \div 2))
    ELSE IF pos + 1 < width
    THEN (IF proof = <<>> THEN <<>>
          ELSE FoldProof(NodeHash(h, proof[1]), Tail(proof), pos \div 2, (width + 1) \div 2))
    ELSE FoldProof(h, proof, pos \div 2, (width + 1) \div 2)

\* C2: with N packages hashed and last_package = N - 1, the merkle_proof that
\* compute_proofs writes for every package k of start_package .. last_package
\* folds from pkg_hash_k to the root that compute_proofs returns.
C2_ProofsFoldToRoot ==
    (/\ pc = "check"
     /\ \A k \in 0 .. last_package : <<k, tree_size>> \in DOMAIN infoFiles
     /\ last_package = Len(get_pkg_hash_list(infoFiles, tree_size)) - 1)
    => \A k \in start_package .. last_package :
          LET info == infoFiles[<<k, tree_size>>]
          IN  FoldProof(info.pkg_hash, info.merkle_proof, k, last_package + 1) = computed_root

\* C3: in an automatic run whose recomputed root differs from the STH's
\* sha256_root_hash the run aborts, and no .torrent, .magnet, .magnets or .rss
\* file is written: the files under torrent_dir change only in a run whose
\* computed root is the signed one.
C3_MismatchNeverPackaged ==
    [][/\ (pc = "check" /\ mode = "auto" /\ computed_root # sth.sha256_root_hash)
            => /\ pc' = "idle"
               /\ outcome' \in {"Invalid Entries", "killed"}
               /\ UNCHANGED <<torrentFiles, feedFiles>>
       /\ (torrentFiles' # torrentFiles \/ feedFiles' # feedFiles)
            => /\ pc = "torrents"
               /\ tree_size = sth.tree_size
               /\ computed_root = sth.sha256_root_hash]_vars

\* C3 happens: an automatic run is at the acceptance check with a root that is
\* not the signed one.
C3_Witness ==
    /\ pc = "check" /\ mode = "auto"
    /\ computed_root # sth.sha256_root_hash

\* The bundle names <<start, end>> of the whole archive.
AllBundleNames(files) == {<<n[2], n[3]>> : n \in DOMAIN files}

\* The resume rule applied to the bundles on disk: 0 without any, else past the
\* last bundle when it is full and at its start when it is partial.
ResumeByRule(files) ==
    IF DOMAIN files = {} THEN 0
    ELSE LET last_bundle == LastName(AllBundleNames(files))
         IN  IF last_bundle[2] - last_bundle[1] + 1 = bundle_size
             THEN last_bundle[2] + 1
             ELSE last_bundle[1]

\* C4: whenever a run may start (after a run that ended or was interrupted at any
\* point), discover_start_index returns 0 when there is no package directory, and
\* otherwise E + 1 for a full last bundle S-E and S for a partial one.
C4_ResumeDiscovery ==
    pc = "idle" =>
        LET resume == discover_start_index(rootDir, pkgDirs, bundles, root_name,
                                           package_size, bundle_size)
        IN  IF pkgDirs = {} THEN resume = 0 ELSE resume = ResumeByRule(bundles)

\* A bundle file name is canonical at tree size t when no other file of the same
\* start has a larger end below t.
CanonicalName(files, n, t) ==
    /\ n[3] < t
    /\ \A m \in DOMAIN files : (m[2] = n[2] /\ m[3] < t) => m[3] <= n[3]

\* C5: once a fetch has run to its end, whatever happened to the runs before it,
\* every canonical bundle S-E on disk holds exactly the log entries S .. E.
C5_CrashConsistentBundles ==
    (pc = "fetched" /\ mode = "auto") =>
        \A n \in DOMAIN bundles :
            CanonicalName(bundles, n, sth.tree_size)
                => bundles[n] = Written(LogEntries(n[2], n[3]))

\* The disk holds the complete canonical bundle set of the log: the bundles an
\* uninterrupted fetch of all its entries writes, every one complete.
ArchiveComplete ==
    /\ logSize >= 1
    /\ \A n \in DOMAIN CanonicalBundles(logSize, package_size, bundle_size) :
          n \in DOMAIN bundles /\ bundles[n] = Written(LogEntries(n[2], n[3]))

\* C6: when an automatic run has ended without being killed and the disk holds all
\* bundles of the log (whether an earlier run was killed after its fetch or not),
\* every package 0 .. last_package has an info file.
C6_InfoFilesRecomputed ==
    (/\ pc = "idle" /\ mode = "auto"
     /\ outcome \in {"done", "Nothing to do", "Invalid Entries", "compute_package raised",
                      "IndexError"}
     /\ ArchiveComplete)
    => \A k \in 0 .. LastPackageOf(logSize) :
          \E n \in DOMAIN infoFiles : n[1] = k /\ n[2] <= logSize

\* C7: against a server that answers in full, with bundle_size and the step size
\* powers of two, every bundle file S-E on disk has at most bundle_size entries and
\* starts at a multiple of bundle_size.
C7_BundleSizeBound ==
    (server = "full" /\ IsPowerOfTwo(bundle_size)) =>
        \A n \in DOMAIN bundles :
            /\ n[3] - n[2] + 1 <= bundle_size
            /\ n[2] % bundle_size = 0

\* C8: when an uninterrupted fetch from the bundle-aligned start_index has
\* returned, every entry start_index .. tree_size - 1 is in exactly one bundle, no
\* bundle reaches outside that range, and each bundle S-E holds the entries S .. E.
C8_ExactCover ==
    (pc = "fetched" /\ mode = "expert_getct") =>
        /\ \A n \in DOMAIN bundles :
              /\ start_index <= n[2] /\ n[3] < sth.tree_size
              /\ bundles[n] = Written(LogEntries(n[2], n[3]))
        /\ \A i \in start_index .. sth.tree_size - 1 :
              Cardinality({n \in DOMAIN bundles : n[2] <= i /\ i <= n[3]}) = 1

\* What makes the verification of an STH fail.
SthInvalid ==
    \/ ~sig.sig_valid
    \/ sig.hash_algo # 4
    \/ sig.sig_algo \notin {1, 3}
    \/ sig.sig_len # sig.actual_len
    \/ ~sig.log_known

\* C9: when the verification of the STH fails, the fetch aborts with an error and
\* neither the STH file nor any bundle is written; an STH file is written only by
\* handle_new_sth on an STH that verifies, and bundles only after that.
C9_NoSthWithoutVerification ==
    [][/\ (pc = "handle_sth" /\ SthInvalid)
            => /\ pc' = "idle"
               /\ outcome' \in {"STH verification failed", "killed"}
               /\ UNCHANGED <<sthFiles, bundles, pkgDirs>>
       /\ sthFiles' # sthFiles => (pc = "handle_sth" /\ ~SthInvalid)
       /\ (bundles' # bundles \/ pkgDirs' # pkgDirs) => verified]_vars

\* C9 happens: a fetch against a non-empty log ended on a failed verification.
C9_Witness ==
    /\ outcome = "STH verification failed"
    /\ logSize >= 1
    /\ sthFiles = {} /\ bundles = <<>>

\* C10: get_ct refuses every bundle_size that is no positive power of two, before
\* any side effect (no directory, no request, no file), and lets every power of
\* two pass.
C10_BundleSizeCheck ==
    [][/\ ~IsPowerOfTwo(bundle_size)
            => /\ pc' = "idle"
               /\ UNCHANGED diskVars
               /\ runs' # runs => outcome' = "bundle_size arg must be a power of 2"
       /\ (IsPowerOfTwo(bundle_size) /\ runs' # runs)
            => pc' = "get_sth" /\ rootDir']_vars

\* C10 happens: get_ct was called with bundle_size 3 and refused it.
C10_Witness ==
    /\ bundle_size = 3
    /\ outcome = "bundle_size arg must be a power of 2"
    /\ runs = 1
    /\ ~rootDir

\* C14: in an automatic run whose verified STH has tree_size 0, handle_new_sth
\* writes the STH file and the run stops there: no request for entries, no
\* package directory, no bundle, no info file, no torrent, and sth-0 is the one
\* file under the package root.
C14_EmptyTree ==
    [][(pc = "handle_sth" /\ sth.tree_size = 0 /\ ~SthInvalid)
          => /\ pc' = "idle"
             /\ outcome' \in {"Nothing to do", "killed"}
             /\ outcome' = "Nothing to do" => sthFiles' = {0}
             /\ pkgDirs' = {} /\ DOMAIN bundles' = {} /\ DOMAIN infoFiles' = {}
             /\ UNCHANGED <<torrentFiles, feedFiles>>]_vars

\* C14 happens: an automatic run on the empty log has ended after writing sth-0.
C14_Witness ==
    /\ mode = "auto" /\ pc = "idle" /\ outcome = "Nothing to do"
    /\ logSize = 0
    /\ sthFiles = {0} /\ pkgDirs = {} /\ DOMAIN bundles = {}

\* C16: with every package 0 .. last_package hashed, the proof compute_proofs
\* writes for package k is its RFC 6962 audit path over the list of package
\* hashes (two packages: [pkg_hash_1] for package 0 and [pkg_hash_0] for package 1).
C16_ProofIsAuditPath ==
    (/\ pc = "check"
     /\ \A k \in 0 .. last_package : <<k, tree_size>> \in DOMAIN infoFiles
     /\ last_package = Len(get_pkg_hash_list(infoFiles, tree_size)) - 1)
    => \A k \in start_package .. last_package :
          infoFiles[<<k, tree_size>>].merkle_proof
              = AuditPath(k, get_pkg_hash_list(infoFiles, tree_size))

\* C19: when the last package directory holds no bundle file,
\* discover_start_index returns the number of that directory times package_size
\* times bundle_size, whatever the name of the package root.
C19_EmptyLastPackage ==
    (/\ pc = "idle"
     /\ pkgDirs # {}
     /\ BundleNames(bundles, SetMax(pkgDirs)) = {})
    => discover_start_index(rootDir, pkgDirs, bundles, root_name, package_size, bundle_size)
          = SetMax(pkgDirs) * package_size * bundle_size

\* C20: the fetch of an expert_getct run on a new archive, where resume discovery
\* gives 0, requests entries from min(resume, start_index) rounded down to a
\* multiple of bundle_size on, whatever start_index the caller passed.
C20_EffectiveStart ==
    (mode = "expert_getct" /\ pc \in {"fetch", "wb_mkdir", "wb_open", "wb_write", "fetched"})
    => LET resume == discover_start_index(FALSE, {}, <<>>, root_name, package_size, bundle_size)
       IN  \E requested \in 0 .. MaxTree :
              start_index = (Min(resume, requested) \div bundle_size) * bundle_size

\* C15: when every request is answered after finitely many failures, a fetch that
\* has its verified STH ends: get_ct returns, having requested every range up to
\* tree_size - 1 and written all it buffered, the final partial bundle included;
\* a failed request is issued again and never ends the run.
C15_EventualCompletion ==
    /\ (pc = "probe") ~> (pc = "fetched")
    /\ [](pc = "fetched"
            => /\ req_index >= sth.tree_size
               /\ IF final
                  THEN LET name == BundleFile(bundle_start, bundle_lst, package_size, bundle_size)
                       IN  name \in DOMAIN bundles /\ bundles[name] = Written(bundle_lst)
                  ELSE bundle_lst = <<>>)
    /\ [][fails' > fails => (pc' = pc /\ req_index' = req_index)]_vars

\* C15 happens: get_ct has returned after writing a final partial bundle.
C15_Witness ==
    /\ pc = "fetched" /\ mode = "expert_getct"
    /\ final /\ Len(bundle_lst) < bundle_size
    /\ sth.tree_size >= 3

\* The names of a listing, below the bound, that have the largest second number
\* among those of the same first number below the bound, in increasing order.
LatestBelow(names, bound) ==
    SortedNames({n \in names :
                    /\ n[2] <= bound
                    /\ \A m \in names : (m[1] = n[1] /\ m[2] <= bound) => m[2] <= n[2]})

\* C17: for every listing and every tree_size, get_bundle_list returns, sorted by
\* start index, for each start index the one bundle with the largest end index
\* that is <= tree_size - 1, and no bundle whose end index exceeds tree_size - 1.
C17_CanonicalSelection ==
    selected.fn = "get_bundle_list"
        => selected.returned = LatestBelow(listing, listing_tree_size - 1)

\* C18: for every set of info files and every tree_size, get_pkg_hash_list
\* returns, in increasing package number, the pkg_hash of the file with the
\* largest encoded tree_size <= tree_size of each package that has one, and
\* nothing from a file with a larger encoded tree_size.
C18_InfoFileSelection ==
    selected.fn = "get_pkg_hash_list"
        => LET kept == LatestBelow(listing, listing_tree_size)
           IN  selected.returned = [i \in 1 .. Len(kept) |-> InfoOfName(kept[i]).pkg_hash]

\* C18 happens: one package with an older, a current and a too recent info file.
C18_Witness ==
    /\ selected.fn = "get_pkg_hash_list"
    /\ listing = {<<0, 1>>, <<0, 2>>, <<0, 3>>}
    /\ listing_tree_size = 2
    /\ selected.returned = <<InfoOfName(<<0, 2>>).pkg_hash>>

\* The file list of the claim for package k at the tree size t: the canonical
\* bundles of k by increasing start index, then the STH file, then the info file.
CanonicalFileList(files, bundle_names, k, t) ==
    BundleFileList(files, k, LatestBelow(bundle_names, t - 1))
        \o <<[length |-> Len(ReadFile(files, <<build_sth_name(t)>>)),
              path |-> <<build_sth_name(t)>>]>>
        \o <<[length |-> Len(ReadFile(files, <<build_info_file_name(k, t)>>)),
              path |-> <<build_info_file_name(k, t)>>]>>

\* The BTIH of the torrent whose file list is file_list.
BtihOfFileList(files, file_list) ==
    LET piece_length == PieceLength(Sum([i \in 1 .. Len(file_list) |-> file_list[i].length]))
    IN  Sha1(bencode(info_section(suggested_name, piece_length,
                                  Join(get_pieces(files, file_list, piece_length)),
                                  file_list, 0)))

\* C11: the file list of every torrent written for a package k at a tree size T
\* is the canonical bundles of k in increasing start index (path package name,
\* bundle name), then sth-T, then the info file k-T, and nothing else.
C11_TorrentFileList ==
    [][(pc = "torrents" /\ pc' = "torrents")
          => \A k \in tasks \ tasks' :
                LET files == ArchiveFiles(bundles, [t \in sthFiles |-> LogRoot(t)], infoFiles)
                IN  torrentFiles'[<<k, tree_size>>].magnet.xt =
                        BtihOfFileList(files, CanonicalFileList(files, BundleNames(bundles, k),
                                                                k, tree_size))]_vars

\* C12: a second execution of create_torrent for a package over the same files
\* on disk and the same suggested name writes the same BTIH, whatever the time,
\* the ASN, the trackers and the peers of the two executions.
C12_InfohashStable ==
    [][UNCHANGED <<bundles, sthFiles, infoFiles>>
          => \A n \in DOMAIN torrentFiles \cap DOMAIN torrentFiles' :
                torrentFiles'[n].magnet.xt = torrentFiles[n].magnet.xt]_vars

\* C12 happens: a torrent written a second time, at another time, from another
\* AS, with peers in place of trackers, so that its metainfo file has changed.
C12_Witness ==
    /\ mode = "expert_bt" /\ pc = "idle" /\ outcome = "done"
    /\ clock = 2 /\ asn = 64497 /\ trackers = <<>> /\ peers # <<>>
    /\ tree_size = 0
    /\ \E n \in DOMAIN torrentFiles :
          /\ n[2] = logSize
          /\ torrentFiles[n].magnet.x_pe = peers
          /\ torrentFiles[n].torrent #
                 TorrentOf(bundles, sthFiles, infoFiles, n[1], n[2], DefaultEnvironment).torrent

\* A reader of bencoded bytes: the length a byte string announces at position p
\* and the position of its first byte (0 when there is no such announcement).
RECURSIVE ReadLength(_, _, _)
ReadLength(b, p, n) ==
    IF p > Len(b) THEN [n |-> 0, first |-> 0]
    ELSE IF b[p] = 58 THEN [n |-> n, first |-> p + 1]
    ELSE IF b[p] \in 48 .. 57 THEN ReadLength(b, p + 1, 10 * n + (b[p] - 48))
    ELSE [n |-> 0, first |-> 0]

RECURSIVE IntegerEnd(_, _)
IntegerEnd(b, p) ==
    IF p > Len(b) THEN 0 ELSE IF b[p] = 101 THEN p + 1 ELSE IntegerEnd(b, p + 1)

\* The position after the value that starts at position p, and after the items
\* of a list or dict up to its closing 'e' (0 when the bytes are malformed).
RECURSIVE ValueEnd(_, _)
RECURSIVE ItemsEnd(_, _)
ValueEnd(b, p) ==
    IF p = 0 \/ p > Len(b) THEN 0
    ELSE IF b[p] = 105 THEN IntegerEnd(b, p + 1)
    ELSE IF b[p] \in {100, 108} THEN ItemsEnd(b, p + 1)
    ELSE LET head == ReadLength(b, p, 0)
         IN  IF head.first = 0 \/ head.first + head.n > Len(b) + 1 THEN 0
             ELSE head.first + head.n

ItemsEnd(b, p) ==
    IF p = 0 \/ p > Len(b) THEN 0
    ELSE IF b[p] = 101 THEN p + 1
    ELSE ItemsEnd(b, ValueEnd(b, p))

\* The bytes of the value under the key `key` of the dict whose items start at
\* position p (the empty string when there is none).
RECURSIVE ValueUnder(_, _, _)
ValueUnder(b, p, key) ==
    IF p = 0 \/ p > Len(b) \/ b[p] = 101 THEN <<>>
    ELSE LET head == ReadLength(b, p, 0)
             value == head.first + head.n
             end == ValueEnd(b, value)
         IN  IF head.first = 0 \/ end = 0 THEN <<>>
             ELSE IF SubSeq(b, head.first, value - 1) = key THEN SubSeq(b, value, end - 1)
             ELSE ValueUnder(b, end, key)

\* C13: in every metainfo file written, the bytes of the value under the key
\* 'info' are the bytes whose SHA-1 is the BTIH of the magnet link: the info
\* section is encoded once and passes through bencode as it is.
C13_InfoEncodedOnce ==
    \A n \in DOMAIN torrentFiles :
        /\ Head(torrentFiles[n].torrent) = 100
        /\ Sha1(ValueUnder(torrentFiles[n].torrent, 2, Key_info)) = torrentFiles[n].magnet.xt

\* C13 happens: a metainfo file in which the key 'peers' follows the info value.
C13_Witness ==
    /\ mode = "expert_bt"
    /\ \E n \in DOMAIN torrentFiles :
          /\ torrentFiles[n].magnet.x_pe # <<>>
          /\ torrentFiles[n].magnet.tr = <<>>
          /\ ValueUnder(torrentFiles[n].torrent, 2, Key_peers) # <<>>
          /\ Len(ValueUnder(torrentFiles[n].torrent, 2, Key_info)) > 100

\* C22: for every total size T the piece length is max(2^15, ((T div 1500) >>
\* 13) << 13), at least 32 KiB, and a multiple of 16 KiB.
C22_PieceLength ==
    result.fn = "piece_length"
        => /\ result.returned =
                  Max(32768, ((call.total_size \div 1500) \div 8192) * 8192)
           /\ result.returned >= 32768
           /\ result.returned % 16384 = 0

\* C28: for a probe answered with n >= 1 entries detect_step_size returns the
\* largest power of two that is <= n.
C28_StepIsLargestPowerOfTwo ==
    result.fn = "detect_step_size"
        => /\ result.returned = Pow2(FloorLog2(call.entries_count))
           /\ result.returned <= call.entries_count
           /\ 2 * result.returned > call.entries_count

\* C23: for every file list of total size T >= 1 and every piece length L,
\* get_pieces yields exactly ceil(T / L) digests, digest i being the SHA-1 of the
\* bytes i * L .. min((i + 1) * L, T) - 1 of the concatenation of the files; no
\* digest of an empty piece is yielded, also when T is a multiple of L.
C23_PiecesOfConcatenation ==
    (result.fn = "get_pieces" /\ Sum(call.lengths) >= 1)
        => LET T == Sum(call.lengths)
               L == call.piece_length
               count == (T + L - 1) \div L
           IN  result.returned =
                   [i \in 1 .. count |->
                       Sha1([j \in 1 .. (Min(i * L, T) - (i - 1) * L) |-> (i - 1) * L + j])]

\* C24, as amended: the pair-wise reduction with odd carry is the RFC 6962 MTH
\* of its input for every non-empty input, of a length that is a power of two
\* or not.
C24_ReductionIsMTH ==
    (result.fn = "get_partial_tree_hash" /\ result.ends)
        => result.returned = MTH(call.entry_hashes)

\* C24 happens: the reduction of seven hashes, not all the same, has returned.
C24_Witness ==
    /\ result.fn = "get_partial_tree_hash" /\ result.ends
    /\ Len(call.entry_hashes) = 7
    /\ call.entry_hashes[1] # call.entry_hashes[7]
    /\ result.returned # call.entry_hashes[1]

\* C24, as stated: the reduction is the MTH on the lengths that are powers of
\* two, and there is a length that is not a power of two, and a list of that
\* length, on which the reduction differs from the MTH.
C24_DiffersOffPowersOfTwo ==
    (result.fn = "get_partial_tree_hash" /\ result.ends)
        => /\ IsPowerOfTwo(Len(call.entry_hashes)) => result.returned = MTH(call.entry_hashes)
           /\ \E l \in HashLists(MaxHashes) :
                 /\ Len(l) >= 1 /\ ~IsPowerOfTwo(Len(l))
                 /\ get_partial_tree_hash(l) # MTH(l)

\* C29: get_partial_tree_hash ends on every input list, and compute_package on
\* every existing package directory, one without a canonical bundle and one with
\* a bundle of no entry included.
C29_HashingTerminates ==
    result.fn \in {"get_partial_tree_hash", "compute_package"} => result.ends

\* The order of byte strings: at the first position where they differ, or a
\* proper prefix first.
LexLess(a, b) ==
    \E i \in 1 .. Len(b) :
        /\ i <= Len(a) + 1
        /\ \A j \in 1 .. i - 1 : a[j] = b[j]
        /\ i = Len(a) + 1 \/ a[i] < b[i]

RECURSIVE Reversed(_)
Reversed(items) == IF items = <<>> THEN <<>> ELSE Append(Reversed(Tail(items)), Head(items))

\* The encoding of BEP 3, by the structure of the value: the elements of a list
\* in order and the items of a dict by increasing key, each container closed by
\* one 'e' after its own elements.
RECURSIVE Bep3(_)
RECURSIVE Bep3List(_)
RECURSIVE Bep3Dict(_)
Bep3(x) ==
    CASE x.t = "int" -> <<105>> \o Decimal(x.v) \o <<101>>
      [] x.t = "str" -> Decimal(Len(x.v)) \o <<58>> \o x.v
      [] x.t = "list" -> <<108>> \o Bep3List(x.v) \o <<101>>
      [] x.t = "dict" -> <<100>> \o Bep3Dict(x.v) \o <<101>>

Bep3List(xs) == IF Len(xs) = 0 THEN <<>> ELSE Bep3(Head(xs)) \o Bep3List(Tail(xs))

Bep3Dict(items) ==
    IF Len(items) = 0 THEN <<>>
    ELSE LET first == CHOOSE i \in 1 .. Len(items) :
                          \A j \in 1 .. Len(items) :
                              j = i \/ LexLess(items[i][1].v, items[j][1].v)
         IN  Bep3(items[first][1]) \o Bep3(items[first][2])
                 \o Bep3Dict([k \in 1 .. Len(items) - 1 |->
                                 IF k < first THEN items[k] ELSE items[k + 1]])

\* C27: bencode emits the items of every dict, at every depth, by increasing key
\* whatever the insertion order, and closes every list and dict with one 'e'
\* after its own elements and before the next sibling; the same items inserted
\* in the opposite order give the same bytes, and {"a": 1, "b": [2, "x"]} gives
\* d1:ai1e1:bli2e1:xee.
C27_BencodeCanonical ==
    result.fn = "bencode"
        => /\ result.returned = Bep3(call.obj)
           /\ result.returned = bencode(DictValue(Reversed(call.obj.v)))
           /\ bencode(DictValue(<<<<StrValue(<<97>>), IntValue(1)>>,
                                  <<StrValue(<<98>>), InnerList>>>>))
                  = <<100, 49, 58, 97, 105, 49, 101, 49, 58, 98, 108, 105, 50, 101,
                      49, 58, 120, 101, 101>>

\* C27 happens: a dict inserted as 'b', then 'a', whose 'a' is a list that holds
\* a dict inserted out of order too, has been encoded.
C27_Witness ==
    /\ result.fn = "bencode"
    /\ Len(call.obj.v) = 2
    /\ call.obj.v[1][1].v = <<98>> /\ call.obj.v[2][1].v = <<97>>
    /\ call.obj.v[1][2].t = "int"
    /\ call.obj.v[2][2].t = "list" /\ Len(call.obj.v[2][2].v) = 2
    /\ call.obj.v[2][2].v[1].t = "dict"
    /\ Len(result.returned) > 30

\* The request get_entries is about to issue: its start and its end.
PendingRequest ==
    IF pc = "probe" THEN <<0, RequestEnd(0, step_size, step_size)>>
    ELSE <<req_index, RequestEnd(req_index, step_size, sth.tree_size)>>

\* C21: a get-entries request that fails, by its status or by a transport error,
\* is followed by the reopening of the connection and by the same request (same
\* start, same end); the next range is requested only after a status 200, and
\* a failed request leaves the buffer as it was.
C21_RetryReopens ==
    [][/\ fails' = fails + 1
          => /\ reopens' = reopens + 1
             /\ pc' = pc /\ PendingRequest' = PendingRequest
             /\ bundle_lst' = bundle_lst
       /\ (pc = "fetch" /\ req_index' # req_index) => status' = 200]_vars

\* The packages of the run in progress.
RunPackages == start_package .. last_package

\* C25: the proof pass starts only when every hashing task of the run has written
\* its info file, in whatever order they ended; a torrent is made only after the
\* proof pass and the root check of the run; the .magnets and .rss files are
\* written only when every torrent task of the run has written its files.
C25_PhasesInOrder ==
    [][/\ (pc = "hashing" /\ (pc' = "check" \/ (pc' = "idle" /\ outcome' = "IndexError")))
          => /\ tasks = {}
             /\ \A k \in RunPackages : <<k, tree_size>> \in DOMAIN infoFiles
       /\ torrentFiles' # torrentFiles
          => /\ pc = "torrents"
             /\ computed_root = sth.sha256_root_hash
             /\ \A k \in RunPackages : <<k, tree_size>> \in DOMAIN infoFiles
       /\ (pc = "torrents" /\ pc' = "idle" /\ outcome' = "done")
          => /\ tasks = {}
             /\ \A k \in RunPackages : <<k, tree_size>> \in DOMAIN torrentFiles
             /\ feedFiles' = feedFiles \cup {tree_size}]_vars

\* C25 happens: a run of two packages or more has gone through its hashing
\* tasks, the proof pass, the root check, its torrent tasks and the feeds.
C25_Witness ==
    \E t \in feedFiles :
        /\ \E j, k \in 0 .. MaxTree :
              /\ j # k
              /\ {<<j, t>>, <<k, t>>} \subseteq DOMAIN torrentFiles
              /\ {<<j, t>>, <<k, t>>} \subseteq DOMAIN infoFiles
              /\ infoFiles[<<j, t>>].merkle_proof # <<>>

\* f and g are equal everywhere but at key.
SameBut(f, g, key) ==
    /\ DOMAIN g \subseteq DOMAIN f \cup {key}
    /\ \A n \in DOMAIN f : n \in DOMAIN g /\ (n # key => g[n] = f[n])

\* C26: within a phase, the task of package k writes only its own files: the
\* info file of (k, tree_size) for a hashing task, the .torrent and .magnet of
\* (k, tree_size) for a torrent task; the files of two distinct packages of the
\* run are distinct, in whatever order the tasks are taken.
C26_TasksWriteOwnFiles ==
    [][/\ (pc = "hashing" /\ tasks' # tasks /\ pc' = pc)
          => \E k \in tasks :
                /\ tasks' = tasks \ {k}
                /\ SameBut(infoFiles, infoFiles', <<k, tree_size>>)
                /\ UNCHANGED <<rootDir, pkgDirs, bundles, sthFiles, torrentFiles, feedFiles>>
       /\ (pc = "torrents" /\ tasks' # tasks /\ pc' = pc)
          => \E k \in tasks :
                /\ tasks' = tasks \ {k}
                /\ SameBut(torrentFiles, torrentFiles', <<k, tree_size>>)
                /\ UNCHANGED <<archiveVars, feedFiles>>
       /\ pc \in {"hashing", "torrents"}
          => \A j, k \in RunPackages :
                j # k => /\ HashingTaskWrites(j, tree_size) \cap HashingTaskWrites(k, tree_size) = {}
                         /\ TorrentTaskWrites(j, tree_size) \cap TorrentTaskWrites(k, tree_size) = {}]_vars

\* C26 happens: in a run of two packages or more, the torrent task of a later
\* package has written its files while that of the first is still pending.
C26_Witness ==
    /\ pc = "torrents"
    /\ last_package > start_package
    /\ tasks = {start_package}
    /\ <<last_package, tree_size>> \in DOMAIN torrentFiles
    /\ \A k \in RunPackages : <<k, tree_size>> \in DOMAIN infoFiles

\* compute_proofs is about to be called: the pool of compute_packages has returned.
ProofPassStarts == pc = "hashing" /\ tasks = {}

\* Every package up to last_package has an info file at the tree size of the run
\* or at an older one.
EveryPackageHashed ==
    \A i \in 0 .. last_package :
        \E n \in DOMAIN infoFiles : n[1] = i /\ n[2] <= tree_size

\* Position i (from 0) of the list get_pkg_hash_list returns is taken from an
\* info file of package i, for every package up to last_package.
PositionIsPackage ==
    LET kept == FilteredInfoFiles(infoFiles, tree_size)
        hash_list == get_pkg_hash_list(infoFiles, tree_size)
    IN  /\ Len(hash_list) = last_package + 1
        /\ \A i \in 0 .. last_package :
              /\ kept[i + 1][1] = i
              /\ hash_list[i + 1] = infoFiles[kept[i + 1]].pkg_hash

\* C30: after any sequence of automatic runs against a growing log,
\* when compute_proofs is called every package 0 .. last_package has an info file
\* of tree size <= the current one, and position i of the package hash list is
\* the pkg_hash of package i.
C30_PositionIsPackage ==
    ProofPassStarts => (EveryPackageHashed /\ PositionIsPackage)

====
